---- MODULE Spec2Model ----
(***************************************************************************)
(* Model of the multibagger stock screener backend: the record cache       *)
(* (cache.service.ts), the screening pipeline (screen.controller.ts and    *)
(* the bulk path of the controller) and the Yartseva scoring engine        *)
(* (scoring.service.ts).                                                    *)
(*                                                                         *)
(* Conventions.                                                            *)
(*  - An optional value (TypeScript `T | null` or `T | undefined`) is a    *)
(*    sequence: <<>> when absent, <<v>> when present.                      *)
(*  - Scores are kept in half points (the momentum factor scores 2.5), so  *)
(*    Pts(25) is the integer 50 and the maximum total 110 is Pts(110).     *)
(*  - Money amounts are in thousands of dollars and prices in cents; the   *)
(*    code only ever uses their ratios and the market cap in millions.     *)
(*  - Ratios are compared by cross multiplication, which is exact; the     *)
(*    code compares IEEE doubles.                                          *)
(***************************************************************************)
EXTENDS Integers, Sequences, FiniteSets, TLC

VARIABLES
    input,              \* SpecScore: the ScoringInput under test
    result,             \* SpecScore: calculateScores(input), or NoResult
    now,                \* Date.now(), in milliseconds since the process started
    ticks,              \* how many times the clock has advanced
    stock_cache,        \* table stock_cache: upper-case ticker -> optional row
    lastGet,            \* SpecCache: the last call of getCachedStock
    lastClear,          \* SpecCache: the last call of clearExpiredCache
    screening_results,  \* table screening_results: a set of rows
    env,                \* which API keys the process environment holds
    alphaVantage,       \* AlphaVantageService: dailyCallCount, dailyCallReset
    req,                \* the screenings started so far, in order of arrival
    avCalls,            \* AlphaVantageService: the calls made so far
    avLimiter,          \* avLimiter (Bottleneck): when it last launched a job
    avHttp,             \* the times at which Alpha Vantage requests were sent
    avCache,            \* AlphaVantageService: the in-memory result cache
    fetchRetry,         \* edgar.service.ts: one run of fetchWithRetry
    silent,             \* the upstreams that accept a request and never answer
    edgar_cik_mapping,  \* table edgar_cik_mapping: ticker -> optional row
    edgar_financials,   \* table edgar_financials: ticker -> its fiscal years
    cikCache,           \* edgar.service.ts: the in-memory ticker -> CIK map
    edgarCalls,         \* EdgarService: the calls made so far
    calendarYear,       \* the calendar year of the wall clock
    history,            \* calculateCAGR: the yearly series given
    cagrArgs,           \* FMPApiService.calculateCAGR: its three arguments
    cagr,               \* calculateCAGR: what each provider returned
    bulk,               \* bulkScreen: the batch being screened
    priceLookup,        \* the daily prices given, and the price each provider found
    preScreen,          \* PreScreeningService: the scores found for input
    lastStats           \* SpecStats: the last call of getCacheStats

restVars == <<bulk, priceLookup, preScreen, lastStats>>
scoreVars == <<input, result>>
growthVars == <<history, cagrArgs, cagr>>
clockVars == <<now, ticks>>
cacheVars == <<stock_cache, lastGet, lastClear>>
pipeVars == <<screening_results, env, alphaVantage, req>>
avVars == <<avCalls, avLimiter, avHttp, avCache>>
edgarDbVars ==
    <<edgar_cik_mapping, edgar_financials, cikCache, edgarCalls, calendarYear>>
edgarVars == <<fetchRetry, edgarDbVars>>
transportVars == <<silent>>
svcVars == <<avVars, edgarVars, transportVars>>
vars ==
    <<input, result, now, ticks, stock_cache, lastGet, lastClear,
      screening_results,
      env, alphaVantage, req, avCalls, avLimiter, avHttp, avCache,
      fetchRetry, silent, edgar_cik_mapping, edgar_financials, cikCache,
      edgarCalls, calendarYear, history, cagrArgs, cagr, bulk, priceLookup,
      preScreen, lastStats>>

----------------------------------------------------------------------------
(* Optional values *)

Missing == <<>>

Some(v) == <<v>>

Has(x) == x # <<>>

Val(x) == x[1]

\* JavaScript truthiness of an optional number: null, undefined and 0 are falsy.
Truthy(x) == Has(x) /\ Val(x) # 0

\* Score unit: one half point.
Pts(n) == 2 * n

\* Market cap is kept in thousands of dollars: 1000 units make a million.
UnitsPerMillion == 1000

\* num / den * 100 > k as the code's double arithmetic decides it, for k >= 0
\* or den # 0: the sign of den flips the cross-multiplied comparison, and a
\* zero den gives +Infinity (num > 0), -Infinity (num < 0) or NaN (num = 0).
PctGT(num, den, k) ==
    IF den > 0 THEN 100 * num > k * den
    ELSE IF den < 0 THEN 100 * num < k * den
    ELSE num > 0

\* num / den * 100 < k, for den # 0.
PctLT(num, den, k) ==
    IF den > 0 THEN 100 * num < k * den ELSE 100 * num > k * den

\* num / den * 100 <= k, for den # 0.
PctLE(num, den, k) ==
    IF den > 0 THEN 100 * num <= k * den ELSE 100 * num >= k * den

----------------------------------------------------------------------------
(* ScoringService: the nine factor functions *)

Factor(s, m) == [score |-> s, maxScore |-> m]

\* Mutant of scoreFcfYield: the band edges are inclusive (>= for >).
scoreFcfYield_inclusive(in) ==
    IF ~Truthy(in.freeCashFlow) \/ in.marketCap <= 0
    THEN Factor(0, 25)
    ELSE LET fcf == Val(in.freeCashFlow)
             mc  == in.marketCap
         IN  IF ~PctLT(fcf, mc, 12) THEN Factor(Pts(25), 25)
             ELSE IF ~PctLT(fcf, mc, 8) THEN Factor(Pts(20), 25)
             ELSE IF ~PctLT(fcf, mc, 5) THEN Factor(Pts(15), 25)
             ELSE IF PctGT(fcf, mc, 0) THEN Factor(Pts(8), 25)
             ELSE Factor(0, 25)

\* Factor 1: FCF yield, max 25.
scoreFcfYield(in) ==
    IF ~Truthy(in.freeCashFlow) \/ in.marketCap <= 0
    THEN Factor(0, 25)
    ELSE LET fcf == Val(in.freeCashFlow)
             mc  == in.marketCap
         IN  IF PctGT(fcf, mc, 12) THEN Factor(Pts(25), 25)
             ELSE IF PctGT(fcf, mc, 8) THEN Factor(Pts(20), 25)
             ELSE IF PctGT(fcf, mc, 5) THEN Factor(Pts(15), 25)
             ELSE IF PctGT(fcf, mc, 0) THEN Factor(Pts(8), 25)
             ELSE Factor(0, 25)

\* Mutant of scoreSize: the band edges are inclusive (<= for <).
scoreSize_inclusive(in) ==
    IF in.marketCap <= 350 * UnitsPerMillion THEN Factor(Pts(15), 15)
    ELSE IF in.marketCap <= 500 * UnitsPerMillion THEN Factor(Pts(12), 15)
    ELSE IF in.marketCap <= 1000 * UnitsPerMillion THEN Factor(Pts(8), 15)
    ELSE IF in.marketCap <= 2000 * UnitsPerMillion THEN Factor(Pts(4), 15)
    ELSE Factor(0, 15)

\* Factor 2: size, max 15. marketCapM = marketCap / 1_000_000.
scoreSize(in) ==
    IF in.marketCap < 350 * UnitsPerMillion THEN Factor(Pts(15), 15)
    ELSE IF in.marketCap < 500 * UnitsPerMillion THEN Factor(Pts(12), 15)
    ELSE IF in.marketCap < 1000 * UnitsPerMillion THEN Factor(Pts(8), 15)
    ELSE IF in.marketCap < 2000 * UnitsPerMillion THEN Factor(Pts(4), 15)
    ELSE Factor(0, 15)

\* Factor 3: book-to-market, max 15. btm = bookValue / marketCap against
\* 1.0, 0.6, 0.4 and 0, i.e. btm * 100 against 100, 60, 40 and 0.
scoreBookToMarket(in) ==
    IF ~Truthy(in.bookValue) \/ in.marketCap <= 0
    THEN Factor(0, 15)
    ELSE LET bv == Val(in.bookValue)
             mc == in.marketCap
         IN  IF PctGT(bv, mc, 100) THEN Factor(Pts(15), 15)
             ELSE IF PctGT(bv, mc, 60) THEN Factor(Pts(12), 15)
             ELSE IF PctGT(bv, mc, 40) THEN Factor(Pts(8), 15)
             ELSE IF PctGT(bv, mc, 0) THEN Factor(Pts(4), 15)
             ELSE Factor(0, 15)

\* Mutant of scoreInvestmentPattern: EBITDA growing with assets stable or
\* shrinking is tested first and scores 10.
scoreInvestmentPattern_efficiencyFirst(in) ==
    IF ~Has(in.ebitdaGrowth) \/ ~Has(in.assetGrowth)
    THEN Factor(0, 15)
    ELSE LET eg == Val(in.ebitdaGrowth)
             ag == Val(in.assetGrowth)
         IN  IF eg > 0 /\ ~(ag > 0) THEN Factor(Pts(10), 15)
             ELSE IF eg > ag /\ eg > 0 THEN Factor(Pts(15), 15)
             ELSE IF eg > 0 /\ ag > 0 THEN Factor(Pts(7), 15)
             ELSE Factor(0, 15)

\* Factor 4: investment pattern, max 15.
scoreInvestmentPattern(in) ==
    IF ~Has(in.ebitdaGrowth) \/ ~Has(in.assetGrowth)
    THEN Factor(0, 15)
    ELSE LET eg == Val(in.ebitdaGrowth)
             ag == Val(in.assetGrowth)
         IN  IF eg > ag /\ eg > 0 THEN Factor(Pts(15), 15)
             ELSE IF eg > 0 /\ ag > 0 THEN Factor(Pts(7), 15)
             ELSE IF eg > 0 THEN Factor(Pts(10), 15)
             ELSE Factor(0, 15)

\* Factor 5: EBITDA margin, max 10.
scoreEbitdaMargin(in) ==
    IF ~Has(in.ebitdaMargin)
    THEN Factor(0, 10)
    ELSE LET margin == Val(in.ebitdaMargin)
         IN  IF margin > 20 THEN Factor(Pts(10), 10)
             ELSE IF margin > 15 THEN Factor(Pts(8), 10)
             ELSE IF margin > 10 THEN Factor(Pts(6), 10)
             ELSE IF margin > 0 THEN Factor(Pts(3), 10)
             ELSE Factor(0, 10)

\* Factor 6: return on assets, max 10.
scoreRoa(in) ==
    IF ~Has(in.roa)
    THEN Factor(0, 10)
    ELSE LET roa == Val(in.roa)
         IN  IF roa > 12 THEN Factor(Pts(10), 10)
             ELSE IF roa > 8 THEN Factor(Pts(8), 10)
             ELSE IF roa > 5 THEN Factor(Pts(6), 10)
             ELSE IF roa > 0 THEN Factor(Pts(3), 10)
             ELSE Factor(0, 10)

\* Mutant of scorePriceRange: the band edges are exclusive (< for <=).
scorePriceRange_exclusive(in) ==
    IF in.high52w = 0 \/ in.low52w = 0 \/ in.high52w = in.low52w
    THEN Factor(0, 10)
    ELSE LET range == in.high52w - in.low52w
             pos   == in.price - in.low52w
         IN  IF PctLT(pos, range, 20) THEN Factor(Pts(10), 10)
             ELSE IF PctLT(pos, range, 35) THEN Factor(Pts(8), 10)
             ELSE IF PctLT(pos, range, 50) THEN Factor(Pts(5), 10)
             ELSE IF PctLT(pos, range, 75) THEN Factor(Pts(2), 10)
             ELSE Factor(0, 10)

\* Factor 7: position in the 52-week range, max 10 (contrarian).
scorePriceRange(in) ==
    IF in.high52w = 0 \/ in.low52w = 0 \/ in.high52w = in.low52w
    THEN Factor(0, 10)
    ELSE LET range == in.high52w - in.low52w
             pos   == in.price - in.low52w
         IN  IF PctLE(pos, range, 20) THEN Factor(Pts(10), 10)
             ELSE IF PctLE(pos, range, 35) THEN Factor(Pts(8), 10)
             ELSE IF PctLE(pos, range, 50) THEN Factor(Pts(5), 10)
             ELSE IF PctLE(pos, range, 75) THEN Factor(Pts(2), 10)
             ELSE Factor(0, 10)

\* Mutant of scoreMomentum: no neutral estimate, a missing price scores 0.
scoreMomentum_zeroWhenMissing(in) ==
    IF ~Truthy(in.price6MonthsAgo) \/ Val(in.price6MonthsAgo) <= 0
    THEN Factor(0, 5)
    ELSE LET p6   == Val(in.price6MonthsAgo)
             diff == in.price - p6
         IN  IF PctLT(diff, p6, -15) THEN Factor(Pts(5), 5)
             ELSE IF PctLT(diff, p6, -5) THEN Factor(Pts(4), 5)
             ELSE IF PctLT(diff, p6, 0) THEN Factor(Pts(3), 5)
             ELSE IF PctLT(diff, p6, 15) THEN Factor(Pts(1), 5)
             ELSE Factor(0, 5)

\* Factor 8: six-month momentum, max 5 (contrarian). Without a usable
\* price6MonthsAgo the score is the neutral estimate 2.5 (one Pts(5) halved).
scoreMomentum(in) ==
    IF ~Truthy(in.price6MonthsAgo) \/ Val(in.price6MonthsAgo) <= 0
    THEN Factor(5, 5)
    ELSE LET p6   == Val(in.price6MonthsAgo)
             diff == in.price - p6
         IN  IF PctLT(diff, p6, -15) THEN Factor(Pts(5), 5)
             ELSE IF PctLT(diff, p6, -5) THEN Factor(Pts(4), 5)
             ELSE IF PctLT(diff, p6, 0) THEN Factor(Pts(3), 5)
             ELSE IF PctLT(diff, p6, 15) THEN Factor(Pts(1), 5)
             ELSE Factor(0, 5)

\* Factor 9: dividend, max 5.
scoreDividend(in) ==
    LET paysDividend ==
            (Has(in.paysDividend) /\ Val(in.paysDividend))
            \/ (Truthy(in.dividendYield) /\ Val(in.dividendYield) > 0)
    IN  IF paysDividend THEN Factor(Pts(5), 5) ELSE Factor(0, 5)

\* Mutant of classify: the thresholds are strict (> for >=).
classify_strict(total, maxTotal) ==
    IF PctGT(total, Pts(maxTotal), 70) THEN "STRONG BUY"
    ELSE IF PctGT(total, Pts(maxTotal), 55) THEN "MODERATE BUY"
    ELSE IF PctGT(total, Pts(maxTotal), 40) THEN "WEAK BUY"
    ELSE "AVOID"

\* calculateScores: the nine factors, their sum, and the classification of
\* percentage = total / maxTotal * 100 (compared exactly, in half points).
classify(total, maxTotal) ==
    IF ~PctLT(total, Pts(maxTotal), 70) THEN "STRONG BUY"
    ELSE IF ~PctLT(total, Pts(maxTotal), 55) THEN "MODERATE BUY"
    ELSE IF ~PctLT(total, Pts(maxTotal), 40) THEN "WEAK BUY"
    ELSE "AVOID"

\* Mutant of sumFactorScores: the dividend factor is left out of the total.
sumFactorScores_skipsDividend(f) ==
    f.fcfYield.score + f.size.score + f.bookToMarket.score
    + f.investmentPattern.score + f.ebitdaMargin.score + f.roa.score
    + f.priceRange.score + f.momentum.score

\* The total: the sum of the nine factor scores.
sumFactorScores(f) ==
    f.fcfYield.score + f.size.score + f.bookToMarket.score
    + f.investmentPattern.score + f.ebitdaMargin.score + f.roa.score
    + f.priceRange.score + f.momentum.score + f.dividend.score

calculateScores(in) ==
    LET fcfYield          == scoreFcfYield(in)
        size              == scoreSize(in)
        bookToMarket      == scoreBookToMarket(in)
        investmentPattern == scoreInvestmentPattern(in)
        ebitdaMargin      == scoreEbitdaMargin(in)
        roa               == scoreRoa(in)
        priceRange        == scorePriceRange(in)
        momentum          == scoreMomentum(in)
        dividend          == scoreDividend(in)
        maxTotal          == 110
        factors == [fcfYield |-> fcfYield, size |-> size,
                    bookToMarket |-> bookToMarket,
                    investmentPattern |-> investmentPattern,
                    ebitdaMargin |-> ebitdaMargin, roa |-> roa,
                    priceRange |-> priceRange, momentum |-> momentum,
                    dividend |-> dividend]
        total == sumFactorScores(factors)
    IN  [fcfYield |-> fcfYield, size |-> size, bookToMarket |-> bookToMarket,
         investmentPattern |-> investmentPattern, ebitdaMargin |-> ebitdaMargin,
         roa |-> roa, priceRange |-> priceRange, momentum |-> momentum,
         dividend |-> dividend,
         total |-> total, maxTotal |-> maxTotal,
         classification |-> classify(total, maxTotal)]

FactorNames ==
    {"fcfYield", "size", "bookToMarket", "investmentPattern", "ebitdaMargin",
     "roa", "priceRange", "momentum", "dividend"}

----------------------------------------------------------------------------
(* CacheService: the record cache over table stock_cache *)

\* 24 * 60 * 60 * 1000 milliseconds.
CACHE_DURATION_MS == 86400000

\* The tickers as callers spell them, and String.toUpperCase on them.
TickerSpellings == {"aaa", "AAA", "BBB"}

toUpperCase(s) == IF s = "aaa" THEN "AAA" ELSE s

Tickers == {toUpperCase(s) : s \in TickerSpellings}

\* Mutant of isFresh: a record aged exactly 24 hours is still fresh.
isFresh_inclusive(fetchedAt, t) == t - fetchedAt <= CACHE_DURATION_MS

\* isFresh, with Date.now() passed as t.
isFresh(fetchedAt, t) == t - fetchedAt < CACHE_DURATION_MS

\* A CachedStockData. The fields that play no part in scoring or in the
\* control flow (companyName, sector, industry, totalAssets, ebitda, peRatio,
\* pbRatio) are left out.
CachedStockData(ticker, in, paysDividend, fetchedAt) ==
    [ticker |-> ticker, marketCap |-> in.marketCap, price |-> in.price,
     high52w |-> in.high52w, low52w |-> in.low52w,
     fcf |-> in.freeCashFlow, bookValue |-> in.bookValue,
     ebitdaMargin |-> in.ebitdaMargin, roa |-> in.roa,
     assetGrowth |-> in.assetGrowth, ebitdaGrowth |-> in.ebitdaGrowth,
     dividendYield |-> in.dividendYield, paysDividend |-> paysDividend,
     price6MonthsAgo |-> in.price6MonthsAgo, dataFetchedAt |-> fetchedAt]

\* The row that saveStockData binds for a record: ticker in upper case and
\* pays_dividend as 1 or 0.
RowOf(data) ==
    [data EXCEPT !.ticker = toUpperCase(@),
                 !.paysDividend = IF @ THEN 1 ELSE 0]

\* The typed object getCachedStock builds from a row: Boolean(paysDividend).
RecordOf(row) == [row EXCEPT !.paysDividend = (@ # 0)]

\* getCachedStock: null without a row or with a row that is not fresh.
getCachedStock(cache, ticker, t) ==
    LET row == cache[toUpperCase(ticker)]
    IN  IF ~Has(row) THEN Missing
        ELSE IF ~isFresh(Val(row).dataFetchedAt, t) THEN Missing
        ELSE Some(RecordOf(Val(row)))

\* Mutant of saveStockData: INSERT OR IGNORE, the stored row is kept.
saveStockData_keepsStored(cache, data) ==
    IF Has(cache[toUpperCase(data.ticker)]) THEN cache
    ELSE [cache EXCEPT ![toUpperCase(data.ticker)] = Some(RowOf(data))]

\* saveStockData: INSERT OR REPLACE on the primary key ticker.
saveStockData(cache, data) ==
    [cache EXCEPT ![toUpperCase(data.ticker)] = Some(RowOf(data))]

\* Mutant of clearExpiredCache: every row that is not fresh is deleted.
clearExpiredCache_stale(cache, t) ==
    [k \in DOMAIN cache |->
        IF Has(cache[k]) /\ ~isFresh(Val(cache[k]).dataFetchedAt, t)
        THEN Missing ELSE cache[k]]

\* clearExpiredCache: DELETE ... WHERE data_fetched_at < now - 24h.
clearExpiredCache(cache, t) ==
    [k \in DOMAIN cache |->
        IF Has(cache[k]) /\ Val(cache[k]).dataFetchedAt < t - CACHE_DURATION_MS
        THEN Missing ELSE cache[k]]

\* result.changes of that DELETE: the number of rows it removed.
expiredChanges(cache, t) ==
    Cardinality({k \in DOMAIN cache :
        Has(cache[k]) /\ Val(cache[k]).dataFetchedAt < t - CACHE_DURATION_MS})

\* clearAllCache: DELETE FROM stock_cache.
clearAllCache(cache) == [k \in DOMAIN cache |-> Missing]

\* getCacheStats: COUNT(*) of the table, and of the rows with
\* data_fetched_at >= Date.now() - CACHE_DURATION_MS.
getCacheStats(cache, t) ==
    LET total  == Cardinality({k \in DOMAIN cache : Has(cache[k])})
        cutoff == t - CACHE_DURATION_MS
        fresh  == Cardinality({k \in DOMAIN cache :
                                  /\ Has(cache[k])
                                  /\ Val(cache[k]).dataFetchedAt >= cutoff})
    IN  [totalCached |-> total, freshCount |-> fresh,
         expiredCount |-> total - fresh]

EmptyCache == [k \in Tickers |-> Missing]

\* The clock advances by d milliseconds, at most limit times.
Tick(d, limit) ==
    /\ ticks < limit
    /\ now' = now + d
    /\ ticks' = ticks + 1

----------------------------------------------------------------------------
(* Data providers: what each call can answer *)

\* A provider call that failed: network error, non-OK status, unparsable or
\* schema-mismatching body, or a service that is not configured.
Failed == [ok |-> FALSE]

\* fmpApiService.getStockData: profile, quote and the latest statements.
\* Ratios come as fractions; they are kept in hundredths, so that the
\* controller's "* 100" leaves the digits as they are.
FmpStockDataResponses ==
    {Failed,
     [ok |-> TRUE, marketCap |-> 280000, price |-> 2500, yearHigh |-> 4500,
      yearLow |-> 2000, freeCashFlow |-> Some(42000),
      totalStockholdersEquity |-> Some(0), ebitdaMargin |-> Some(22),
      returnOnAssets |-> Missing]}

\* The close that getHistoricalPrice finds in the FMP price series.
HistoricalPriceResponses == {Failed, [ok |-> TRUE, close |-> Some(3200)]}

\* The dividendYield of the latest FMP key metrics, in hundredths.
DividendResponses == {Failed, [ok |-> TRUE, dividendYield |-> Some(25)]}

\* The two CAGRs calculateGrowthMetrics computes from the FMP statements.
FmpGrowthResponses ==
    {Failed,
     [ok |-> TRUE, ebitdaGrowth |-> Some(0), assetGrowth |-> Missing],
     [ok |-> TRUE, ebitdaGrowth |-> Some(25), assetGrowth |-> Some(12)]}

\* The growth metrics Gemini finds by search.
GeminiGrowthResponses ==
    {Failed, [ok |-> TRUE, ebitdaGrowth |-> Some(9), assetGrowth |-> Some(7)]}

\* The JSON object geminiService.getStockData parses from the answer.
GeminiStockDataResponses ==
    {Failed,
     [ok |-> TRUE, marketCap |-> 280000, price |-> 2500,
      high52w |-> Some(4500), low52w |-> Some(2000),
      price6MonthsAgo |-> Some(3200), freeCashFlow |-> Some(42000),
      bookValue |-> Some(350000), ebitdaMargin |-> Some(22),
      roa |-> Some(14), ebitdaGrowth |-> Some(25), assetGrowth |-> Some(12),
      paysDividend |-> TRUE, dividendYield |-> Some(25)],
     [ok |-> TRUE, marketCap |-> 280000, price |-> 2500,
      high52w |-> Missing, low52w |-> Missing,
      price6MonthsAgo |-> Missing, freeCashFlow |-> Some(0),
      bookValue |-> Missing, ebitdaMargin |-> Some(22),
      roa |-> Some(14), ebitdaGrowth |-> Some(0), assetGrowth |-> Missing,
      paysDividend |-> FALSE, dividendYield |-> Missing]}

YahooResponses == {Failed, [ok |-> TRUE, price6MonthsAgo |-> Some(2600)]}

EdgarGrowthResponses ==
    {Failed, [ok |-> TRUE, ebitdaGrowth |-> Some(-4), assetGrowth |-> Some(6)]}

\* Alpha Vantage: the two CAGRs, and how many of its two fetches were
\* answered (each answered fetch is one recordCall).
AlphaVantageResponses ==
    {[ok |-> FALSE, recorded |-> 0],
     [ok |-> TRUE, ebitdaGrowth |-> Some(11), assetGrowth |-> Some(13),
      recorded |-> 2]}

\* The provider calls whose failure reaches the handler as an exception:
\* getStockData of the primary provider has no try/catch around it. Every
\* other call catches its own errors or is wrapped by the controller.
PrimaryProviders == {"fmp.getStockData", "gemini.getStockData"}

\* Mutant of Throws: no provider call catches its errors.
Throws_anyProvider(provider, resp) == ~resp.ok

Throws(provider, resp) == provider \in PrimaryProviders /\ ~resp.ok

\* Mutant of fillOnly: the merge by `||`, which also replaces a 0.
fillOnly_truthy(cur, offered) == IF Truthy(cur) THEN cur ELSE offered

\* `cur ?? offered`, and `if (cur === null && offered !== null) cur = offered`.
fillOnly(cur, offered) == IF Has(cur) THEN cur ELSE offered

\* `x || null`: 0 (and NaN) become null.
orNull(x) == IF Truthy(x) THEN x ELSE Missing

\* getHistoricalPrice: the close found, null on any failure.
getHistoricalPrice(resp) == IF resp.ok THEN resp.close ELSE Missing

\* getDividendInfo: {paysDividend, dividendYield * 100}; no dividend on a
\* failure or without a (non-zero) dividendYield.
getDividendInfo(resp) ==
    IF resp.ok /\ Truthy(resp.dividendYield)
    THEN [paysDividend |-> Val(resp.dividendYield) > 0,
          dividendYield |-> resp.dividendYield]
    ELSE [paysDividend |-> FALSE, dividendYield |-> Missing]

\* calculateGrowthMetrics, searchGrowthMetrics, edgarService.getGrowthMetrics
\* and alphaVantageService.getGrowthMetrics: nulls on any failure.
growthOf(resp) ==
    IF resp.ok
    THEN [ebitdaGrowth |-> resp.ebitdaGrowth, assetGrowth |-> resp.assetGrowth]
    ELSE [ebitdaGrowth |-> Missing, assetGrowth |-> Missing]

\* yahooFinanceService.getCompleteFinancials: null price on any failure.
getCompleteFinancials(resp) ==
    IF resp.ok THEN [price6MonthsAgo |-> resp.price6MonthsAgo]
    ELSE [price6MonthsAgo |-> Missing]

\* AlphaVantageService: the daily budget.
DAILY_LIMIT == 25

MS_PER_DAY == 86400000

\* canMakeCall starts a new day when the last reset is more than 24h old.
avRollover(a, t) ==
    IF t - a.dailyCallReset > MS_PER_DAY
    THEN [dailyCallCount |-> 0, dailyCallReset |-> t] ELSE a

canMakeCall(a, t) == avRollover(a, t).dailyCallCount < DAILY_LIMIT

getRemainingCalls(a, t) ==
    IF t - a.dailyCallReset > MS_PER_DAY THEN DAILY_LIMIT
    ELSE IF DAILY_LIMIT - a.dailyCallCount > 0
         THEN DAILY_LIMIT - a.dailyCallCount ELSE 0

\* recordCall, once per answered fetch.
recordCalls(a, n) == [a EXCEPT !.dailyCallCount = @ + n]

\* The in-memory result cache of getGrowthMetrics keeps a result for 24 hours.
CACHE_TTL == 86400000

\* avLimiter: one job at a time, 12 seconds between two launches.
AV_MIN_TIME == 12000

AvStatementOps == {"getIncomeStatements", "getBalanceSheets"}

\* What a fetch can come back with: an answer with the reports, a status
\* that is not ok, the API's limit note (data.Note / data.Information), or
\* an exception of fetch or response.json().
AvOutcomes == {"ok", "notOk", "limitNote", "threw"}

\* One call of the service. exhausted tells whether the call found the
\* budget used up (a key is set and canMakeCall() was false) when it was made;
\* sentAt is when its HTTP request left, if it has.
AvCall(op, parent, pc, returned, exhausted) ==
    [op |-> op, parent |-> parent, pc |-> pc, returned |-> returned,
     exhausted |-> exhausted, sentAt |-> Missing]

\* The service's counters after `!this.apiKey || !this.canMakeCall()`:
\* canMakeCall is evaluated, and may start a new day, only when a key is set.
avAfterCheck(key, a, t) == IF key THEN avRollover(a, t) ELSE a

\* Entry of getIncomeStatements / getBalanceSheets: return [] without a key
\* or without budget, otherwise hand the fetch to avLimiter.schedule.
statementCall(op, parent, key, a, t) ==
    IF key /\ canMakeCall(a, t)
    THEN AvCall(op, parent, "queued", "pending", FALSE)
    ELSE AvCall(op, parent, "done", "empty", key)

----------------------------------------------------------------------------
(* edgar.service.ts: fetchWithRetry *)

MAX_RETRIES == 3

INITIAL_BACKOFF_MS == 1000

\* What one fetch can end with: a response with its status, or a network
\* error (fetch rejects).
HttpResponse(status) == [kind |-> "response", status |-> status]

NetworkError == [kind |-> "error", status |-> 0]

FetchResults == {HttpResponse(st) : st \in {200, 404, 429, 500, 503}}
                \cup {NetworkError}

RECURSIVE pow2(_)
pow2(n) == IF n = 0 THEN 1 ELSE 2 * pow2(n - 1)

\* Mutant of backoffTime: the wait grows linearly.
backoffTime_linear(attempt) == INITIAL_BACKOFF_MS * (attempt + 1)

\* backoffTime = INITIAL_BACKOFF_MS * Math.pow(2, attempt).
backoffTime(attempt) == INITIAL_BACKOFF_MS * pow2(attempt)

\* A response that ends the loop at once: a client error other than 429.
isClientError(resp) ==
    resp.status >= 400 /\ resp.status < 500 /\ resp.status # 429

\* A response the loop retries: 429 or a server error.
isRetryable(resp) == resp.status = 429 \/ resp.status >= 500

\* fetchWithRetry before it is called. results and waits record what the
\* run's fetches ended with and how long it slept before each retry.
NoFetch ==
    [pc |-> "idle", attempt |-> 0, maxRetries |-> MAX_RETRIES,
     results |-> <<>>, waits |-> <<>>, returned |-> Missing]

\* One pass of the loop body after `await fetch(...)` ended with res.
afterFetch(f, res) ==
    LET g == [f EXCEPT !.results = Append(@, res)]
    IN  IF res.kind = "response"
        THEN IF isClientError(res)
             THEN [g EXCEPT !.pc = "returned", !.returned = Some(res)]
             ELSE IF isRetryable(res) /\ f.attempt < f.maxRetries
             THEN [g EXCEPT !.pc = "waiting"]
             ELSE [g EXCEPT !.pc = "returned", !.returned = Some(res)]
        ELSE IF f.attempt < f.maxRetries
             THEN [g EXCEPT !.pc = "waiting"]
             ELSE [g EXCEPT !.pc = "threw", !.returned = Some(res)]

\* The backoff timer fired: `continue`, attempt++ and the next fetch.
afterBackoff(f) ==
    [f EXCEPT !.pc = "fetching", !.attempt = @ + 1,
              !.waits = Append(@, backoffTime(f.attempt))]

----------------------------------------------------------------------------
(* EdgarService: the CIK mapping and the cached financials *)

\* getFinancials returns cached data whose last fiscal year is at least this
\* year (the literal in `cached.lastFiscalYear >= 2024`).
CACHED_THROUGH_YEAR == 2024

\* What the fetch of company_tickers.json can give for a ticker: a failure
\* (not ok, or an exception), a file without the ticker, or its entry; and
\* what the fetch of the company facts can give: a failure, or facts with an
\* entityName (absent in some) and annual values for some fiscal years.
TickerFileResponses ==
    {Failed, [ok |-> TRUE, found |-> FALSE],
     [ok |-> TRUE, found |-> TRUE, cik_str |-> <<3, 2, 0, 1, 9, 3>>,
      title |-> "Apple Inc."]}

\* String(cik_str).padStart(10, '0'), a string being its sequence of digits.
padStart(digits, length) ==
    IF Len(digits) >= length THEN digits
    ELSE [i \in 1..length |->
             IF i <= length - Len(digits) THEN 0
             ELSE digits[i - (length - Len(digits))]]

CompanyFactsResponses ==
    {Failed}
    \cup {[ok |-> TRUE, entityName |-> n, years |-> ys] :
            n \in {Missing, Some("APPLE INC")},
            ys \in {{}, {2022, 2023}, {2023, 2024}, {2024, 2025}}}

Max(S) == CHOOSE x \in S : \A y \in S : y <= x

\* getCachedFinancials: null without rows or without the mapping row,
\* otherwise the data with lastFiscalYear = rows[0].fiscal_year, the rows
\* being ordered by fiscal_year DESC.
getCachedFinancials(financials, mapping, ticker) ==
    IF financials[ticker] = {} \/ ~Has(mapping[ticker]) THEN Missing
    ELSE Some([ticker |-> ticker, cik |-> Val(mapping[ticker]).cik,
               companyName |-> Val(mapping[ticker]).company_name,
               lastFiscalYear |-> Max(financials[ticker])])

\* getFinancials answers from the cache: `!forceRefresh`, cached data exist
\* and `cached.lastFiscalYear >= 2024`. The year of the clock plays no part.
usesCache(cached, forceRefresh, year) ==
    ~forceRefresh /\ Has(cached)
    /\ Val(cached).lastFiscalYear >= CACHED_THROUGH_YEAR

\* Mutant of lookupCik: the mapping table is not consulted.
lookupCik_memoryOnly(memory, mapping, ticker) == memory[ticker]

\* getCik without the network: the memory cache, then the mapping table.
lookupCik(memory, mapping, ticker) ==
    IF Has(memory[ticker]) THEN memory[ticker]
    ELSE IF Has(mapping[ticker]) THEN Some(Val(mapping[ticker]).cik)
    ELSE Missing

\* INSERT OR REPLACE INTO edgar_cik_mapping (ticker, cik, company_name,
\* created_at).
saveCikMapping(mapping, ticker, cik, companyName, t) ==
    [mapping EXCEPT ![ticker] =
        Some([cik |-> cik, company_name |-> companyName, created_at |-> t])]

\* saveFinancials for every year of the facts: INSERT OR REPLACE by
\* (ticker, fiscal_year).
saveFinancials(financials, ticker, years) ==
    [financials EXCEPT ![ticker] = @ \cup years]

\* One call of the service. year is the calendar year when it was made and
\* cachedLast the last fiscal year cached for its ticker at that moment;
\* network tells whether it has sent a request, and directory what its
\* download of company_tickers.json gave ("found", "absent", "failed").
EdgarCall(op, ticker, forceRefresh, year, cachedLast) ==
    [op |-> op, ticker |-> ticker, forceRefresh |-> forceRefresh,
     year |-> year, cachedLast |-> cachedLast, pc |-> "start",
     cik |-> Missing, network |-> FALSE, directory |-> "none",
     returned |-> "pending"]

----------------------------------------------------------------------------
(* calculateCAGR in the four providers *)

\* A yearly series is a set of points [year, value] with one point a year.
\* For AlphaVantage, whose points carry the date of the fiscal year end, the
\* year y stands for the date y-12-31. A result is null (Missing), NaN, or
\* a number written as the arguments of the formula
\* (pow(end / start, 1 / years) - 1) * 100, years being a fraction.
Growth(kind, start, end, years) ==
    Some([kind |-> kind, start |-> start, end |-> end, years |-> years])

NaN == Growth("NaN", 0, 0, <<0, 1>>)

\* [...history].sort((a, b) => b.year - a.year): most recent first.
RECURSIVE sortDesc(_)
sortDesc(points) ==
    IF points = {} THEN <<>>
    ELSE LET p == CHOOSE q \in points : \A o \in points : o.year <= q.year
         IN  <<p>> \o sortDesc(points \ {p})

\* sorted.find(test), given the set of the elements that pass the test: the
\* first of them in sorted, absent when none passes.
find(sorted, passes) ==
    LET passing == {i \in 1..Len(sorted) : sorted[i] \in passes}
    IN  IF passing = {} THEN Missing
        ELSE Some(sorted[CHOOSE i \in passing : \A j \in passing : i <= j])

\* EdgarService.calculateCAGR(history, years = 3).
EdgarService_calculateCAGR(points) ==
    IF Cardinality(points) < 2 THEN Missing
    ELSE LET sorted == sortDesc(points)
             recent == sorted[1]
             InWindow(h) == h.year <= recent.year - 3
                            /\ h.year >= recent.year - 3 - 1
             older  == find(sorted, {h \in points : InWindow(h)})
         IN  IF ~Has(older) THEN Missing
             ELSE IF Val(older).value <= 0 \/ recent.value <= 0 THEN Missing
             ELSE IF recent.year - Val(older).year < 2 THEN Missing
             ELSE Growth("cagr", Val(older).value, recent.value,
                         <<recent.year - Val(older).year, 1>>)

\* YahooFinanceService.calculateCAGR(history, years = 3).
YahooFinanceService_calculateCAGR(points) ==
    IF Cardinality(points) < 2 THEN Missing
    ELSE LET sorted == sortDesc(points)
             recent == sorted[1]
             Old(h) == h.year <= recent.year - 3
             oldest == find(sorted, {h \in points : Old(h)})
         IN  IF ~Has(oldest) \/ (Has(oldest) /\ Val(oldest).value <= 0)
                \/ recent.value <= 0
             THEN Missing
             ELSE IF recent.year - Val(oldest).year < 2 THEN Missing
             ELSE Growth("cagr", Val(oldest).value, recent.value,
                         <<recent.year - Val(oldest).year, 1>>)

\* Days from y0-12-31 to y1-12-31 (y0 <= y1): the difference of the two
\* getTime() values, in days.
isLeapYear(y) == y % 4 = 0 /\ (y % 100 # 0 \/ y % 400 = 0)

daysBetween(y0, y1) ==
    365 * (y1 - y0) + Cardinality({y \in (y0 + 1)..y1 : isLeapYear(y)})

\* AlphaVantageService.calculateCAGR(values, years = 3): the point at least
\* three years back, else (also when a value is not positive) the oldest
\* point; null under one year.
AlphaVantageService_calculateCAGR(points) ==
    IF Cardinality(points) < 2 THEN Missing
    ELSE LET sorted == sortDesc(points)
             recent == sorted[1]
             Old(v) == v.year <= recent.year - 3
             found  == find(sorted, {v \in points : Old(v)})
             last   == sorted[Len(sorted)]
             retry  == ~Has(found) \/ (Has(found) /\ Val(found).value <= 0)
                       \/ recent.value <= 0
             oldest == IF retry THEN last ELSE Val(found)
             days   == daysBetween(oldest.year, recent.year)
         IN  IF retry /\ (last.value <= 0 \/ recent.value <= 0) THEN Missing
             ELSE IF days < 365 THEN Missing
             ELSE Growth("cagr", oldest.value, recent.value, <<days, 365>>)

\* Math.pow(base, 1 / years) for base = num / den: NaN for a negative base
\* unless the exponent is an integer (years = 1).
powIsNaN(num, den, years) ==
    ((num < 0 /\ den > 0) \/ (num > 0 /\ den < 0)) /\ years # 1

\* FMPApiService.calculateCAGR(startValue, endValue, years).
FMPApiService_calculateCAGR(startValue, endValue, years) ==
    IF startValue = 0 \/ endValue = 0 \/ startValue <= 0 \/ years <= 0
    THEN Missing
    ELSE IF startValue < 0 /\ endValue > 0 THEN Missing
    ELSE IF startValue < 0 /\ endValue < 0
    THEN \* ratio = endValue / startValue; ratio > 1 is "getting worse"
         IF -endValue > -startValue THEN Missing
         ELSE Growth("improvement", endValue, startValue, <<years, 1>>)
    ELSE IF powIsNaN(endValue, startValue, years) THEN NaN
    ELSE Growth("cagr", startValue, endValue, <<years, 1>>)

NotCalled == Growth("not called", 0, 0, <<0, 1>>)

NoCagr == [edgar |-> NotCalled, alphaVantage |-> NotCalled,
           yahoo |-> NotCalled, fmp |-> NotCalled]

----------------------------------------------------------------------------
(* ScreenController: the two screening paths *)

\* The ScoringInput the controller prepares from a record: `x || undefined`
\* for the optional numbers and `paysDividend || false`.
ScoringInputOf(d) ==
    [price |-> d.price, marketCap |-> d.marketCap,
     high52w |-> d.high52w, low52w |-> d.low52w,
     freeCashFlow |-> orNull(d.fcf), bookValue |-> orNull(d.bookValue),
     ebitdaGrowth |-> orNull(d.ebitdaGrowth),
     assetGrowth |-> orNull(d.assetGrowth),
     ebitdaMargin |-> orNull(d.ebitdaMargin), roa |-> orNull(d.roa),
     price6MonthsAgo |-> orNull(d.price6MonthsAgo),
     paysDividend |-> Some(d.paysDividend),
     dividendYield |-> orNull(d.dividendYield)]

\* saveScreeningResult: INSERT OR REPLACE with screened_at = Date.now(); the
\* table is UNIQUE(ticker, screened_at).
saveScreeningResult(results, d, scores, t) ==
    {x \in results : ~(x.ticker = d.ticker /\ x.screened_at = t)}
    \cup {[ticker |-> d.ticker, screened_at |-> t,
           price_6_months_ago |-> d.price6MonthsAgo,
           ebitda_growth |-> d.ebitdaGrowth, asset_growth |-> d.assetGrowth,
           total_score |-> scores.total,
           classification |-> scores.classification]}

\* A record with nothing fetched yet.
BlankRecord(ticker) ==
    [ticker |-> ticker, marketCap |-> 0, price |-> 0, high52w |-> 0,
     low52w |-> 0, fcf |-> Missing, bookValue |-> Missing,
     ebitdaMargin |-> Missing, roa |-> Missing, assetGrowth |-> Missing,
     ebitdaGrowth |-> Missing, dividendYield |-> Missing,
     paysDividend |-> FALSE, price6MonthsAgo |-> Missing, dataFetchedAt |-> 0]

\* A screening that has just arrived. pc is the provider call it awaits
\* ("start" before the first, "done" after the last); calls, failures, merges
\* and writes record what the screening has done so far.
NewRequest(path, ticker) ==
    [path |-> path, ticker |-> ticker, pc |-> "start", dataSource |-> "api",
     data |-> BlankRecord(ticker), calls |-> {}, failures |-> {},
     merges |-> {}, writes |-> {}, response |-> Missing]

\* The request after the call it awaited has answered, a failure noted.
Answered(q, resp) ==
    [q EXCEPT !.failures = IF resp.ok THEN @ ELSE @ \cup {q.pc}]

\* The request awaiting its next provider call.
Await(q, provider) == [q EXCEPT !.pc = provider, !.calls = @ \cup {provider}]

\* One field merged from a fallback provider, with its trace.
MergeField(q, field, offered) ==
    LET before == q.data[field]
        after  == fillOnly(before, offered)
    IN  [q EXCEPT !.data[field] = after,
                  !.merges = @ \cup {[provider |-> q.pc, field |-> field,
                                      before |-> before, offered |-> offered,
                                      after |-> after]}]

Effects(q, cache, results) == [req |-> q, cache |-> cache, results |-> results]

\* Mutant of CompleteScreening: the record is saved again on a cache hit.
CompleteScreening_alwaysSaves(q, stockData, cache, results, t) ==
    LET scores == calculateScores(ScoringInputOf(stockData))
    IN  Effects(
            [q EXCEPT !.pc = "done", !.data = stockData,
                      !.writes = @ \cup {"stock_cache", "screening_results"},
                      !.response =
                          Some([ok |-> TRUE, ticker |-> q.ticker,
                                factors |-> scores,
                                totalScore |-> scores.total,
                                classification |-> scores.classification,
                                dataSource |-> q.dataSource,
                                timestamp |-> t])],
            saveStockData(cache, stockData),
            saveScreeningResult(results, stockData, scores, t))

\* The end of a screening: the fetched record is saved to the cache (a cached
\* one is not), the record is scored, the result is saved and returned.
CompleteScreening(q, stockData, cache, results, t) ==
    LET fromApi == q.dataSource = "api"
        scores  == calculateScores(ScoringInputOf(stockData))
    IN  Effects(
            [q EXCEPT !.pc = "done", !.data = stockData,
                      !.writes = @ \cup (IF fromApi THEN {"stock_cache"} ELSE {})
                                   \cup {"screening_results"},
                      !.response =
                          Some([ok |-> TRUE, ticker |-> q.ticker,
                                factors |-> scores,
                                totalScore |-> scores.total,
                                classification |-> scores.classification,
                                dataSource |-> q.dataSource,
                                timestamp |-> t])],
            IF fromApi THEN saveStockData(cache, stockData) ELSE cache,
            saveScreeningResult(results, stockData, scores, t))

\* Mutant of FailScreening: the half-built record is cached before the error
\* is answered.
FailScreening_cachesPartial(q, cache, results) ==
    Effects(
        [q EXCEPT !.pc = "done", !.writes = @ \cup {"stock_cache"},
                  !.response =
                      Some([ok |-> FALSE, ticker |-> q.ticker,
                            error |-> "Failed to screen ticker"])],
        saveStockData(cache, q.data), results)

\* The catch block of screenTicker (status 500), and of the loop of
\* bulkScreen (an entry in errors): nothing is written.
FailScreening(q, cache, results) ==
    Effects(
        [q EXCEPT !.pc = "done",
                  !.response =
                      Some([ok |-> FALSE, ticker |-> q.ticker,
                            error |-> "Failed to screen ticker"])],
        cache, results)

\* The effects of a step of request r take place.
Commit(r, e) ==
    /\ req' = [req EXCEPT ![r] = e.req]
    /\ stock_cache' = e.cache
    /\ screening_results' = e.results

\* Request r goes on to await q's next provider call; nothing is written.
Continue(r, q) ==
    /\ req' = [req EXCEPT ![r] = q]
    /\ UNCHANGED <<stock_cache, screening_results>>

\* How many screenings are started in a run.
MaxReqs == 2

\* The arrival of a screening on either path: the cache is read; a fresh
\* record is scored and answered at once, otherwise the primary provider of
\* the path is called.
Arrive(path, spelling, primary) ==
    /\ Len(req) < MaxReqs
    /\ LET ticker == toUpperCase(spelling)
           cached == getCachedStock(stock_cache, ticker, now)
           q      == NewRequest(path, ticker)
           e      == IF Has(cached)
                     THEN CompleteScreening([q EXCEPT !.dataSource = "cache"],
                                            Val(cached), stock_cache,
                                            screening_results, now)
                     ELSE Effects(Await(q, primary), stock_cache,
                                  screening_results)
       IN  /\ req' = Append(req, e.req)
           /\ stock_cache' = e.cache
           /\ screening_results' = e.results
    /\ UNCHANGED <<restVars, growthVars, scoreVars, svcVars, clockVars, lastGet, lastClear, env, alphaVantage>>

\* The record fields screenTicker builds from the FMP data.
fmpFields(d, resp) ==
    [d EXCEPT !.marketCap = resp.marketCap, !.price = resp.price,
              !.high52w = resp.yearHigh, !.low52w = resp.yearLow,
              !.fcf = orNull(resp.freeCashFlow),
              !.bookValue = orNull(resp.totalStockholdersEquity),
              !.ebitdaMargin = orNull(resp.ebitdaMargin),
              !.roa = orNull(resp.returnOnAssets)]

\* GET /screen/ticker/:ticker arrives.
screenTicker(spelling) == Arrive("single", spelling, "fmp.getStockData")

\* fmpApiService.getStockData answers; a failure ends the screening.
FmpStockData(r, resp) ==
    /\ req[r].pc = "fmp.getStockData"
    /\ LET q == Answered(req[r], resp)
       IN  IF Throws(q.pc, resp)
           THEN Commit(r, FailScreening(q, stock_cache, screening_results))
           ELSE Continue(r, Await([q EXCEPT !.data = fmpFields(@, resp)],
                                  "fmp.getHistoricalPrice"))
    /\ UNCHANGED <<restVars, growthVars, scoreVars, svcVars, clockVars, lastGet, lastClear, env, alphaVantage>>

\* fmpApiService.getHistoricalPrice answers.
FmpHistoricalPrice(r, resp) ==
    /\ req[r].pc = "fmp.getHistoricalPrice"
    /\ LET q == Answered(req[r], resp)
       IN  IF Throws(q.pc, resp)
           THEN Commit(r, FailScreening(q, stock_cache, screening_results))
           ELSE Continue(r,
                    Await([q EXCEPT !.data.price6MonthsAgo =
                                        getHistoricalPrice(resp)],
                          "fmp.getDividendInfo"))
    /\ UNCHANGED <<restVars, growthVars, scoreVars, svcVars, clockVars, lastGet, lastClear, env, alphaVantage>>

\* fmpApiService.getDividendInfo answers.
FmpDividendInfo(r, resp) ==
    /\ req[r].pc = "fmp.getDividendInfo"
    /\ LET q    == Answered(req[r], resp)
           info == getDividendInfo(resp)
       IN  IF Throws(q.pc, resp)
           THEN Commit(r, FailScreening(q, stock_cache, screening_results))
           ELSE Continue(r,
                    Await([q EXCEPT !.data.paysDividend = info.paysDividend,
                                    !.data.dividendYield = info.dividendYield],
                          "fmp.calculateGrowthMetrics"))
    /\ UNCHANGED <<restVars, growthVars, scoreVars, svcVars, clockVars, lastGet, lastClear, env, alphaVantage>>

\* Mutant of missingGrowthMetrics: the fallback is not conditional on a gap.
missingGrowthMetrics_unchecked(d) == TRUE

\* Whether a growth metric is still null.
missingGrowthMetrics(d) == ~Has(d.ebitdaGrowth) \/ ~Has(d.assetGrowth)

\* The fetched record is stamped, saved, scored and answered.
BuildAndComplete(r, q) ==
    Commit(r, CompleteScreening(q, [q.data EXCEPT !.dataFetchedAt = now],
                                stock_cache, screening_results, now))

\* fmpApiService.calculateGrowthMetrics answers: with a metric missing and
\* Gemini configured the search fallback is called, otherwise the record is
\* complete.
FmpGrowthMetrics(r, resp) ==
    /\ req[r].pc = "fmp.calculateGrowthMetrics"
    /\ LET q0 == Answered(req[r], resp)
           g  == growthOf(resp)
           q  == [q0 EXCEPT !.data.ebitdaGrowth = g.ebitdaGrowth,
                            !.data.assetGrowth = g.assetGrowth]
       IN  IF Throws(q0.pc, resp)
           THEN Commit(r, FailScreening(q0, stock_cache, screening_results))
           ELSE IF missingGrowthMetrics(q.data) /\ env.geminiKey
           THEN Continue(r, Await(q, "gemini.searchGrowthMetrics"))
           ELSE BuildAndComplete(r, q)
    /\ UNCHANGED <<restVars, growthVars, scoreVars, svcVars, clockVars, lastGet, lastClear, env, alphaVantage>>

\* geminiService.searchGrowthMetrics answers: its metrics fill the gaps.
GeminiGrowthMetrics(r, resp) ==
    /\ req[r].pc = "gemini.searchGrowthMetrics"
    /\ LET q0 == Answered(req[r], resp)
           g  == growthOf(resp)
           q  == MergeField(MergeField(q0, "ebitdaGrowth", g.ebitdaGrowth),
                            "assetGrowth", g.assetGrowth)
       IN  IF Throws(q0.pc, resp)
           THEN Commit(r, FailScreening(q0, stock_cache, screening_results))
           ELSE BuildAndComplete(r, q)
    /\ UNCHANGED <<restVars, growthVars, scoreVars, svcVars, clockVars, lastGet, lastClear, env, alphaVantage>>

\* The record fields screenTickerInternal builds from the Gemini data; the
\* 52-week range defaults to price * 1.1 and price * 0.9.
geminiFields(d, resp, t) ==
    [d EXCEPT !.marketCap = resp.marketCap, !.price = resp.price,
              !.high52w = IF Truthy(resp.high52w) THEN Val(resp.high52w)
                          ELSE (resp.price * 11) \div 10,
              !.low52w = IF Truthy(resp.low52w) THEN Val(resp.low52w)
                         ELSE (resp.price * 9) \div 10,
              !.fcf = resp.freeCashFlow, !.bookValue = resp.bookValue,
              !.ebitdaMargin = resp.ebitdaMargin, !.roa = resp.roa,
              !.assetGrowth = resp.assetGrowth,
              !.ebitdaGrowth = resp.ebitdaGrowth,
              !.dividendYield = resp.dividendYield,
              !.paysDividend = resp.paysDividend,
              !.price6MonthsAgo = resp.price6MonthsAgo,
              !.dataFetchedAt = t]

\* Mutant of BulkProceed: Alpha Vantage is called whenever it is available,
\* without the margin of 5 remaining calls.
BulkProceed_noMargin(d, stage, a, t) ==
    IF stage = 0 /\ ~Has(d.price6MonthsAgo)
    THEN [next |-> "yahoo.getCompleteFinancials", av |-> a]
    ELSE IF stage <= 1 /\ missingGrowthMetrics(d)
    THEN [next |-> "edgar.getGrowthMetrics", av |-> a]
    ELSE IF ~missingGrowthMetrics(d) \/ ~env.avKey
    THEN [next |-> "done", av |-> a]
    ELSE IF canMakeCall(a, t)
    THEN [next |-> "alphaVantage.getGrowthMetrics", av |-> avRollover(a, t)]
    ELSE [next |-> "done", av |-> avRollover(a, t)]

\* The fallback the bulk path calls next, after stage 0 (primary), 1 (Yahoo)
\* or 2 (EDGAR), or "done"; and the Alpha Vantage counters, which isAvailable
\* rolls over to a new day when it is consulted.
BulkProceed(d, stage, a, t) ==
    IF stage = 0 /\ ~Has(d.price6MonthsAgo)
    THEN [next |-> "yahoo.getCompleteFinancials", av |-> a]
    ELSE IF stage <= 1 /\ missingGrowthMetrics(d)
    THEN [next |-> "edgar.getGrowthMetrics", av |-> a]
    ELSE IF ~missingGrowthMetrics(d) \/ ~env.avKey
    THEN [next |-> "done", av |-> a]
    ELSE IF canMakeCall(a, t) /\ getRemainingCalls(avRollover(a, t), t) > 5
    THEN [next |-> "alphaVantage.getGrowthMetrics", av |-> avRollover(a, t)]
    ELSE [next |-> "done", av |-> avRollover(a, t)]

\* Request r of the bulk path goes on from q after a stage: to the next
\* fallback, or to the end of the screening.
BulkContinue(r, q, stage, a) ==
    LET p == BulkProceed(q.data, stage, a, now)
    IN  /\ alphaVantage' = p.av
        /\ IF p.next = "done"
           THEN Commit(r, CompleteScreening(q, q.data, stock_cache,
                                            screening_results, now))
           ELSE Continue(r, Await(q, p.next))

\* bulkScreen calls screenTickerInternal for a symbol.
screenTickerInternal(spelling) ==
    Arrive("bulk", spelling, "gemini.getStockData")

\* geminiService.getStockData answers (it can only fail without an API key);
\* a failure ends the screening of the symbol.
GeminiStockData(r, resp) ==
    /\ req[r].pc = "gemini.getStockData"
    /\ env.geminiKey \/ ~resp.ok
    /\ LET q == Answered(req[r], resp)
       IN  IF Throws(q.pc, resp)
           THEN /\ Commit(r, FailScreening(q, stock_cache, screening_results))
                /\ UNCHANGED alphaVantage
           ELSE BulkContinue(r, [q EXCEPT !.data = geminiFields(@, resp, now)],
                             0, alphaVantage)
    /\ UNCHANGED <<restVars, growthVars, scoreVars, svcVars, clockVars, lastGet, lastClear, env>>

\* yahooFinanceService.getCompleteFinancials answers (step 1).
YahooFinancials(r, resp) ==
    /\ req[r].pc = "yahoo.getCompleteFinancials"
    /\ LET q0 == Answered(req[r], resp)
           y  == getCompleteFinancials(resp)
       IN  IF Throws(q0.pc, resp)
           THEN /\ Commit(r, FailScreening(q0, stock_cache, screening_results))
                /\ UNCHANGED alphaVantage
           ELSE BulkContinue(r, MergeField(q0, "price6MonthsAgo",
                                           y.price6MonthsAgo),
                             1, alphaVantage)
    /\ UNCHANGED <<restVars, growthVars, scoreVars, svcVars, clockVars, lastGet, lastClear, env>>

\* edgarService.getGrowthMetrics answers (step 2).
EdgarGrowthMetrics(r, resp) ==
    /\ req[r].pc = "edgar.getGrowthMetrics"
    /\ LET q0 == Answered(req[r], resp)
           g  == growthOf(resp)
       IN  IF Throws(q0.pc, resp)
           THEN /\ Commit(r, FailScreening(q0, stock_cache, screening_results))
                /\ UNCHANGED alphaVantage
           ELSE BulkContinue(r,
                    MergeField(MergeField(q0, "ebitdaGrowth", g.ebitdaGrowth),
                               "assetGrowth", g.assetGrowth),
                    2, alphaVantage)
    /\ UNCHANGED <<restVars, growthVars, scoreVars, svcVars, clockVars, lastGet, lastClear, env>>

\* alphaVantageService.getGrowthMetrics answers (step 3); its answered
\* fetches are counted against the daily budget.
AlphaVantageGrowthMetrics(r, resp) ==
    /\ req[r].pc = "alphaVantage.getGrowthMetrics"
    /\ LET q0 == Answered(req[r], resp)
           g  == growthOf(resp)
       IN  /\ alphaVantage' = recordCalls(alphaVantage, resp.recorded)
           /\ IF Throws(q0.pc, resp)
              THEN Commit(r, FailScreening(q0, stock_cache, screening_results))
              ELSE Commit(r,
                       LET q == MergeField(
                                    MergeField(q0, "ebitdaGrowth",
                                               g.ebitdaGrowth),
                                    "assetGrowth", g.assetGrowth)
                       IN  CompleteScreening(q, q.data, stock_cache,
                                             screening_results, now))
    /\ UNCHANGED <<restVars, growthVars, scoreVars, svcVars, clockVars, lastGet, lastClear, env>>

----------------------------------------------------------------------------
(* SpecScore: calculateScores applied to a bounded family of inputs *)

MkInput(price, hl, p6, mc, fcf, bv, eg, ag, margin, roa, dv) ==
    [price |-> price, marketCap |-> mc, high52w |-> hl[1], low52w |-> hl[2],
     freeCashFlow |-> fcf, bookValue |-> bv,
     ebitdaGrowth |-> eg, assetGrowth |-> ag,
     ebitdaMargin |-> margin, roa |-> roa, price6MonthsAgo |-> p6,
     paysDividend |-> dv[1], dividendYield |-> dv[2]]

\* The sample stock of GET /scoring/test (every factor in its top band).
sampleStock ==
    MkInput(2500, <<4500, 2000>>, Some(3200), 280000, Some(42000), Some(350000),
            Some(25), Some(12), Some(22), Some(14), <<Some(TRUE), Some(25)>>)

\* Values of each field that reach every band of the factor reading it, the
\* band edges themselves, and the absent / zero / negative cases.
PriceValues ==
    {1900, 2500, 2501, 2719, 2721, 2875, 2876, 3039, 3041, 3199, 3200,
     3250, 3251, 3679, 3681, 3875, 3876, 4500}

RangeValues ==
    {<<4500, 2000>>, <<3000, 3000>>, <<0, 2000>>, <<4500, 0>>, <<2000, 4500>>}

Price6Values ==
    {Missing, Some(0), Some(-100), Some(2000), Some(2600), Some(3200)}

MarketCapValues ==
    {-100000, 0, 280000, 350000, 500000, 525000, 840000, 1000000, 2000000,
     3000000}

FcfValues ==
    {Missing, Some(-10000), Some(0), Some(5000), Some(14000), Some(20000),
     Some(22400), Some(25000), Some(33600), Some(42000)}

BookValues ==
    {Missing, Some(-50000), Some(0), Some(50000), Some(112000), Some(150000),
     Some(168000), Some(200000), Some(280000), Some(350000)}

EbitdaGrowthValues == {Missing, Some(-5), Some(0), Some(10), Some(25)}

AssetGrowthValues == {Missing, Some(-3), Some(0), Some(12), Some(30)}

MarginValues ==
    {Missing, Some(-2), Some(0), Some(5), Some(10), Some(11), Some(15),
     Some(16), Some(20), Some(21), Some(22)}

RoaValues ==
    {Missing, Some(-1), Some(0), Some(3), Some(5), Some(6), Some(8), Some(9),
     Some(12), Some(13), Some(14)}

DividendValues ==
    {<<Missing, Missing>>, <<Missing, Some(0)>>, <<Missing, Some(25)>>,
     <<Some(FALSE), Missing>>, <<Some(FALSE), Some(0)>>,
     <<Some(FALSE), Some(25)>>, <<Some(TRUE), Missing>>,
     <<Some(TRUE), Some(25)>>}

\* The base inputs: each group of fields (valuation, size, growth,
\* profitability, market data) either as in sampleStock or absent / neutral.
BaseInputs ==
    { MkInput(2500, mkt[1], mkt[2], mc, val[1], val[2], gr[1], gr[2],
              prof[1], prof[2], mkt[3]) :
        mkt \in {<<(<<4500, 2000>>), Some(3200), <<Some(TRUE), Some(25)>> >>,
                 <<(<<4500, 2000>>), Missing, <<Missing, Missing>> >>,
                 <<(<<3000, 3000>>), Missing, <<Missing, Missing>> >>},
        mc \in {280000, 3000000},
        val \in {<<Some(42000), Some(350000)>>, <<Missing, Missing>>},
        gr \in {<<Some(25), Some(12)>>, <<Missing, Missing>>},
        prof \in {<<Some(22), Some(14)>>, <<Missing, Missing>>} }

\* Every input that differs from b in one field (one pair, for the 52-week
\* range and for the dividend fields).
Vary(b) ==
    {[b EXCEPT !.price = v] : v \in PriceValues}
    \cup {[b EXCEPT !.high52w = v[1], !.low52w = v[2]] : v \in RangeValues}
    \cup {[b EXCEPT !.price6MonthsAgo = v] : v \in Price6Values}
    \cup {[b EXCEPT !.marketCap = v] : v \in MarketCapValues}
    \cup {[b EXCEPT !.freeCashFlow = v] : v \in FcfValues}
    \cup {[b EXCEPT !.bookValue = v] : v \in BookValues}
    \cup {[b EXCEPT !.ebitdaGrowth = v] : v \in EbitdaGrowthValues}
    \cup {[b EXCEPT !.assetGrowth = v] : v \in AssetGrowthValues}
    \cup {[b EXCEPT !.ebitdaMargin = v] : v \in MarginValues}
    \cup {[b EXCEPT !.roa = v] : v \in RoaValues}
    \cup {[b EXCEPT !.paysDividend = v[1], !.dividendYield = v[2]] :
            v \in DividendValues}

\* How many fields of an input may leave the base values.
MaxDeviations == 1

RECURSIVE VaryN(_, _)
VaryN(S, n) ==
    IF n = 0 THEN S ELSE VaryN(S \cup UNION {Vary(b) : b \in S}, n - 1)

NoResult == [total |-> -1]

----------------------------------------------------------------------------
(* ScreenController.bulkScreen *)

\* Math.min(parseInt(req.query.limit) || 25, 50); an absent or unreadable
\* parameter parses to NaN, given as Missing.
bulkLimit(param) ==
    LET asked == IF Truthy(param) THEN Val(param) ELSE 25
    IN  IF asked < 50 THEN asked ELSE 50

\* Array.prototype.slice(0, end): a negative end counts from the end of the
\* array, an end beyond the array is the length of the array.
slice(s, end) ==
    LET k == IF end < 0 THEN (IF Len(s) + end < 0 THEN 0 ELSE Len(s) + end)
             ELSE IF end < Len(s) THEN end ELSE Len(s)
    IN  SubSeq(s, 1, k)

\* allSymbols.filter(s => !cachedTickers.has(s)).
RECURSIVE filterOut(_, _)
filterOut(s, excluded) ==
    IF s = <<>> THEN <<>>
    ELSE (IF Head(s) \in excluded THEN <<>> ELSE <<Head(s)>>)
         \o filterOut(Tail(s), excluded)

\* The tickers screened within the last 24 hours:
\* SELECT ticker FROM screening_results WHERE screened_at > ? GROUP BY ticker.
cachedTickers(results, t) ==
    {x.ticker : x \in {y \in results : y.screened_at > t - 24 * 60 * 60 * 1000}}

\* Array.prototype.sort with (a, b) => b.score - a.score: highest first, equal
\* elements in their original order.
RECURSIVE sortByScore(_)
sortByScore(s) ==
    IF s = <<>> THEN <<>>
    ELSE LET best == CHOOSE i \in 1..Len(s) :
                        /\ \A j \in 1..Len(s) : s[j].score <= s[i].score
                        /\ \A j \in 1..(i - 1) : s[j].score < s[i].score
         IN  <<s[best]>>
             \o sortByScore(SubSeq(s, 1, best - 1) \o SubSeq(s, best + 1, Len(s)))

\* preScreenTickers(tickers, {minPreScreenScore, maxCandidates}), fetched
\* being fetchTickerData's preScreenScore for each ticker (Missing for null).
RECURSIVE preScreenResultsOf(_, _)
preScreenResultsOf(tickers, fetched) ==
    IF tickers = <<>> THEN <<>>
    ELSE (IF Has(fetched[Head(tickers)])
          THEN <<[ticker |-> Head(tickers), score |-> Val(fetched[Head(tickers)])]>>
          ELSE <<>>)
         \o preScreenResultsOf(Tail(tickers), fetched)

preScreenTickers(tickers, fetched, minPreScreenScore, maxCandidates) ==
    LET results      == preScreenResultsOf(tickers, fetched)
        validResults == SelectSeq(results, LAMBDA r : r.score >= minPreScreenScore)
    IN  slice(sortByScore(validResults), maxCandidates)

\* preScreenForBulk(tickers, limit).
preScreenForBulk(tickers, fetched, limit) ==
    preScreenTickers(tickers, fetched, 6, limit * 2)

\* A bulk request that has read its parameters. attempted is the symbols given
\* to screenTickerInternal so far; response is what res.json was given.
BulkRequest(limit, minMarketCap, maxMarketCap, skipPreScreen) ==
    [pc |-> "start", limit |-> limit, minMarketCap |-> minMarketCap,
     maxMarketCap |-> maxMarketCap, skipPreScreen |-> skipPreScreen,
     uncachedSymbols |-> <<>>, preScreened |-> 0, symbolsToScreen |-> <<>>,
     attempted |-> <<>>, threw |-> {}, results |-> <<>>, errors |-> <<>>,
     response |-> Missing]

NoBulk == [BulkRequest(0, 0, Missing, FALSE) EXCEPT !.pc = "idle"]

\* The choice of the symbols: the first limit uncached ones, or the pre-screen.
bulkSelect(b, allSymbols, results, t) ==
    LET uncachedSymbols == filterOut(allSymbols, cachedTickers(results, t))
    IN  IF b.skipPreScreen \/ Len(uncachedSymbols) <= b.limit
        THEN [b EXCEPT !.pc = "loop", !.uncachedSymbols = uncachedSymbols,
                       !.symbolsToScreen = slice(uncachedSymbols, b.limit)]
        ELSE [b EXCEPT !.pc = "preScreen", !.uncachedSymbols = uncachedSymbols]

\* After the pre-screen: preScreenResults.slice(0, limit).map(r => r.ticker).
bulkPreScreened(b, fetched) ==
    LET preScreenResults == preScreenForBulk(b.uncachedSymbols, fetched, b.limit * 2)
        chosen           == slice(preScreenResults, b.limit)
    IN  [b EXCEPT !.pc = "loop", !.preScreened = Len(preScreenResults),
                  !.symbolsToScreen = [i \in 1..Len(chosen) |-> chosen[i].ticker]]

\* result.marketCap >= minMarketCap && result.marketCap <= maxMarketCap, an
\* absent maxMarketCap being Infinity.
inMarketCapRange(b, marketCap) ==
    /\ marketCap >= b.minMarketCap
    /\ IF Has(b.maxMarketCap) THEN marketCap <= Val(b.maxMarketCap) ELSE TRUE

\* One turn of the loop whose screenTickerInternal(symbol) returned.
bulkScreened(b, symbol, stockData, scores) ==
    [b EXCEPT !.attempted = Append(@, symbol),
              !.results =
                  IF inMarketCapRange(b, stockData.marketCap)
                  THEN Append(@, [ticker |-> toUpperCase(symbol),
                                  marketCap |-> stockData.marketCap,
                                  score |-> scores.total])
                  ELSE @]

\* One turn of the loop whose screenTickerInternal(symbol) threw.
bulkFailed(b, symbol) ==
    [b EXCEPT !.attempted = Append(@, symbol), !.threw = @ \cup {symbol},
              !.errors = Append(@, [ticker |-> symbol])]

\* After the loop: the results sorted by score, and the response.
bulkRespond(b) ==
    LET sorted == sortByScore(b.results)
    IN  [b EXCEPT !.pc = "done", !.results = sorted,
                  !.response = Some([screened |-> Len(sorted),
                                     errors |-> Len(b.errors),
                                     preScreened |-> b.preScreened,
                                     errorDetails |-> slice(b.errors, 10)])]

----------------------------------------------------------------------------
(* The price of six months ago *)

\* Dates are day numbers; a daily price is [date, close].
Abs(x) == IF x < 0 THEN -x ELSE x

\* targetDate.setDate(targetDate.getDate() - daysAgo).
targetDateOf(today, daysAgo) == today - daysAgo

\* The loop of getPrice6MonthsAgo: the first price with the smallest
\* Math.abs(price.date - targetDate); a later price replaces the closest only
\* when strictly closer.
RECURSIVE closestPriceFrom(_, _, _, _)
closestPriceFrom(prices, i, targetDate, closestPrice) ==
    IF i > Len(prices) THEN closestPrice
    ELSE LET diff == Abs(prices[i].date - targetDate)
         IN  closestPriceFrom(prices, i + 1, targetDate,
                 IF ~Has(closestPrice)
                    \/ diff < Abs(Val(closestPrice).date - targetDate)
                 THEN Some(prices[i]) ELSE closestPrice)

\* Mutant of closestPrice: only the prices up to the target date compete, the
\* oldest price being taken when there is none.
closestPrice_notAfter(prices, targetDate) ==
    LET upTo == SelectSeq(prices, LAMBDA p : p.date <= targetDate)
    IN  closestPriceFrom(IF upTo = <<>> THEN prices ELSE upTo, 1, targetDate,
                         Missing)

closestPrice(prices, targetDate) ==
    closestPriceFrom(prices, 1, targetDate, Missing)

\* What a lookup of the price gives: the point chosen, and the value returned.
PriceFound(point, returned) == [point |-> point, returned |-> returned]

\* YahooFinanceService.getPrice6MonthsAgo, given getHistoricalPrices' result.
YahooFinanceService_getPrice6MonthsAgo(prices, today) ==
    IF Len(prices) = 0 THEN PriceFound(Missing, Missing)
    ELSE LET found == closestPrice(prices, targetDateOf(today, 180))
         IN  PriceFound(found, orNull(Some(Val(found).close)))

\* FMPApiService.getHistoricalPrice, given data.historical (Missing when the
\* response has none): the first entry not after the target date, else the
\* last entry.
FMPApiService_getHistoricalPrice(historical, today, daysAgo) ==
    IF ~Has(historical) \/ Len(Val(historical)) = 0
    THEN PriceFound(Missing, Missing)
    ELSE LET h          == Val(historical)
             targetDate == targetDateOf(today, daysAgo)
             upTo       == {i \in 1..Len(h) : h[i].date <= targetDate}
         IN  IF upTo # {}
             THEN LET entry == h[CHOOSE i \in upTo : \A j \in upTo : i <= j]
                  IN  PriceFound(Some(entry), Some(entry.close))
             ELSE PriceFound(Some(h[Len(h)]), orNull(Some(h[Len(h)].close)))

\* No lookup made yet.
NoPrice == [called |-> FALSE, point |-> Missing, returned |-> Missing]

NoPriceLookup ==
    [today |-> 0, prices |-> <<>>, historical |-> Missing, yahoo |-> NoPrice,
     fmp |-> NoPrice]

----------------------------------------------------------------------------
(* PreScreeningService: the two price-based scores *)

\* A percentage num / den * 100 as the double arithmetic gives it, kept as
\* the pair <<num, den>>; it is <= k as follows, a zero den giving -Infinity
\* (num < 0), +Infinity (num > 0) or NaN (num = 0).
PercentLE(p, k) ==
    IF p[2] > 0 THEN 100 * p[1] <= k * p[2]
    ELSE IF p[2] < 0 THEN 100 * p[1] >= k * p[2]
    ELSE p[1] < 0

\* calculatePriceRangeScore(priceRangePercent), in half points.
calculatePriceRangeScore(priceRangePercent) ==
    IF PercentLE(priceRangePercent, 20) THEN Pts(10)
    ELSE IF PercentLE(priceRangePercent, 35) THEN Pts(8)
    ELSE IF PercentLE(priceRangePercent, 50) THEN Pts(5)
    ELSE IF PercentLE(priceRangePercent, 70) THEN Pts(2)
    ELSE 0

\* calculateMomentumScore(momentumPercent), in half points; Missing is null.
calculateMomentumScore(momentumPercent) ==
    IF ~Has(momentumPercent) THEN Pts(2)
    ELSE LET m == Val(momentumPercent)
         IN  IF PercentLE(m, -15) THEN Pts(5)
             ELSE IF PercentLE(m, -5) THEN Pts(4)
             ELSE IF PercentLE(m, 0) THEN Pts(3)
             ELSE IF PercentLE(m, 10) THEN Pts(1)
             ELSE 0

\* fetchTickerData from the metrics on: the two percentages and the scores.
preScreenResult(currentPrice, high52w, low52w, price6MonthsAgo) ==
    LET priceRangePercent == <<currentPrice - low52w, high52w - low52w>>
        momentumPercent ==
            IF Truthy(price6MonthsAgo)
            THEN Some(<<currentPrice - Val(price6MonthsAgo),
                        Val(price6MonthsAgo)>>)
            ELSE Missing
        priceRangeScore == calculatePriceRangeScore(priceRangePercent)
        momentumScore   == calculateMomentumScore(momentumPercent)
    IN  [priceRangeScore |-> priceRangeScore, momentumScore |-> momentumScore,
         preScreenScore |-> priceRangeScore + momentumScore]

NoPreScreen ==
    [priceRangeScore |-> -1, momentumScore |-> -1, preScreenScore |-> -1]

----------------------------------------------------------------------------
\* The parts of the state a specification does not exercise stay as the
\* process starts them.
IdleScore == input = sampleStock /\ result = NoResult

IdleBulk == bulk = NoBulk

IdlePrice == priceLookup = NoPriceLookup

IdlePreScreen == preScreen = NoPreScreen

IdleStats == lastStats = Missing

IdleRest == IdleBulk /\ IdlePrice /\ IdlePreScreen /\ IdleStats

IdleGrowth == history = {} /\ cagrArgs = <<0, 0, 0>> /\ cagr = NoCagr

IdleClock == now = 0 /\ ticks = 0

IdleCache ==
    stock_cache = EmptyCache /\ lastGet = Missing /\ lastClear = Missing

IdlePipeline ==
    /\ screening_results = {}
    /\ env = [geminiKey |-> TRUE, avKey |-> TRUE]
    /\ alphaVantage = [dailyCallCount |-> 0, dailyCallReset |-> 0]
    /\ req = <<>>

IdleAlphaVantage ==
    /\ avCalls = <<>>
    /\ avLimiter = [lastStart |-> Missing]
    /\ avHttp = <<>>
    /\ avCache = Missing

IdleEdgar ==
    /\ fetchRetry = NoFetch
    /\ edgar_cik_mapping = [t \in Tickers |-> Missing]
    /\ edgar_financials = [t \in Tickers |-> {}]
    /\ cikCache = [t \in Tickers |-> Missing]
    /\ edgarCalls = <<>>
    /\ calendarYear = 2025

IdleTransport == silent = {}

IdleServices == IdleAlphaVantage /\ IdleEdgar /\ IdleTransport

InitScore ==
    /\ \E b \in BaseInputs : input \in VaryN({b}, MaxDeviations)
    /\ result = NoResult
    /\ IdleRest /\ IdleGrowth /\ IdleClock /\ IdleCache /\ IdlePipeline /\ IdleServices

\* One call of scoringService.calculateScores(input).
Score ==
    /\ result = NoResult
    /\ result' = calculateScores(input)
    /\ UNCHANGED <<restVars, input, growthVars, clockVars, cacheVars, pipeVars, svcVars>>

NextScore == Score

SpecScore == InitScore /\ [][NextScore]_vars

Scored == result # NoResult

----------------------------------------------------------------------------
(* SpecPreScreen: the pre-screening and the engine on the same prices *)

\* fetchTickerData scores the prices of the input.
PreScreen ==
    /\ preScreen = NoPreScreen
    /\ preScreen' = preScreenResult(input.price, input.high52w, input.low52w,
                                    input.price6MonthsAgo)
    /\ UNCHANGED <<bulk, priceLookup, lastStats, scoreVars, growthVars,
                   clockVars, cacheVars, pipeVars, svcVars>>

NextPreScreen == Score \/ PreScreen

SpecPreScreen == InitScore /\ [][NextPreScreen]_vars

PreScreened == preScreen # NoPreScreen

----------------------------------------------------------------------------
(* SpecCache: the cache service under a clock *)

\* 23h59m, one minute and one second, in milliseconds.
CacheClockSteps == {86340000, 60000, 1000}

MaxCacheTicks == 3

\* The records saved in SpecCache: the sample stock, and one with nothing but
\* a price.
CacheRecords(spelling, t) ==
    {CachedStockData(spelling, sampleStock, TRUE, t),
     CachedStockData(spelling,
         MkInput(2500, <<3000, 3000>>, Missing, 3000000, Missing, Missing,
                 Missing, Missing, Missing, Missing, <<Missing, Missing>>),
         FALSE, t)}

InitCache ==
    IdleRest /\ IdleGrowth /\ IdleScore /\ IdleClock /\ IdleCache /\ IdlePipeline /\ IdleServices

\* cacheService.saveStockData(data), with data.dataFetchedAt = Date.now().
CacheSave(spelling) ==
    /\ \E data \in CacheRecords(spelling, now) :
          stock_cache' = saveStockData(stock_cache, data)
    /\ UNCHANGED <<restVars, growthVars, scoreVars, svcVars, clockVars, lastGet, lastClear, pipeVars>>

\* cacheService.getCachedStock(ticker); lastGet keeps the row it found and
\* what it returned.
CacheGet(spelling) ==
    /\ lastGet' = Some([ticker |-> spelling, at |-> now,
                        row |-> stock_cache[toUpperCase(spelling)],
                        returned |-> getCachedStock(stock_cache, spelling, now)])
    /\ UNCHANGED <<restVars, growthVars, scoreVars, svcVars, clockVars, stock_cache,
                   lastClear, pipeVars>>

\* DELETE /cache/expired: cacheService.clearExpiredCache(); lastClear keeps
\* when it ran, the number it returned, and whether the calls so far are odd
\* in number (so that every call changes it).
CacheClearExpired ==
    /\ stock_cache' = clearExpiredCache(stock_cache, now)
    /\ lastClear' = Some([at |-> now,
                          changes |-> expiredChanges(stock_cache, now),
                          odd |-> IF Has(lastClear) THEN ~Val(lastClear).odd
                                  ELSE TRUE])
    /\ UNCHANGED <<restVars, growthVars, scoreVars, svcVars, clockVars, lastGet, pipeVars>>

\* DELETE /cache/all.
CacheClearAll ==
    /\ stock_cache' = clearAllCache(stock_cache)
    /\ UNCHANGED <<restVars, growthVars, scoreVars, svcVars, clockVars, lastGet, lastClear, pipeVars>>

CacheTick ==
    /\ \E d \in CacheClockSteps : Tick(d, MaxCacheTicks)
    /\ UNCHANGED <<restVars, growthVars, scoreVars, svcVars, cacheVars, pipeVars>>

NextCache ==
    \/ \E s \in TickerSpellings : CacheSave(s)
    \/ \E s \in TickerSpellings : CacheGet(s)
    \/ CacheClearExpired
    \/ CacheClearAll
    \/ CacheTick

SpecCache == InitCache /\ [][NextCache]_vars

----------------------------------------------------------------------------
(* SpecStats: the cache statistics under a clock *)

\* GET /cache/stats: cacheService.getCacheStats(); lastStats keeps what it
\* returned and how many tickers getCachedStock returned a record for at the
\* same instant.
CacheStats ==
    /\ lastStats' =
          Some([at |-> now, stats |-> getCacheStats(stock_cache, now),
                readable |->
                    Cardinality({k \in DOMAIN stock_cache :
                                    Has(getCachedStock(stock_cache, k, now))})])
    /\ UNCHANGED <<bulk, priceLookup, preScreen, growthVars, scoreVars,
                   svcVars, clockVars, cacheVars, pipeVars>>

NextStats ==
    \/ \E s \in TickerSpellings : CacheSave(s)
    \/ CacheStats
    \/ CacheTick

SpecStats == InitCache /\ [][NextStats]_vars

----------------------------------------------------------------------------
(* Spec: screenings on both paths, interleaved at their awaits *)

\* One millisecond, and the cache duration.
PipelineClockSteps == {1, CACHE_DURATION_MS}

MaxPipelineTicks == 1

\* The process environments of a run: both API keys set, with no or with 19
\* answered Alpha Vantage fetches recorded so far today, and no key set.
Environments ==
    {[geminiKey |-> TRUE, avKey |-> TRUE, recorded |-> 0],
     [geminiKey |-> TRUE, avKey |-> TRUE, recorded |-> 19],
     [geminiKey |-> FALSE, avKey |-> FALSE, recorded |-> 0]}

Init ==
    /\ IdleRest /\ IdleGrowth /\ IdleScore /\ IdleClock /\ IdleCache /\ IdleServices
    /\ screening_results = {}
    /\ \E e \in Environments :
          /\ env = [geminiKey |-> e.geminiKey, avKey |-> e.avKey]
          /\ alphaVantage =
                [dailyCallCount |-> e.recorded, dailyCallReset |-> 0]
    /\ req = <<>>

PipelineTick ==
    /\ \E d \in PipelineClockSteps : Tick(d, MaxPipelineTicks)
    /\ UNCHANGED <<restVars, growthVars, scoreVars, svcVars, cacheVars, pipeVars>>

Requests == 1..Len(req)

Next ==
    \/ \E s \in TickerSpellings : screenTicker(s)
    \/ \E r \in Requests : \E resp \in FmpStockDataResponses :
          FmpStockData(r, resp)
    \/ \E r \in Requests : \E resp \in HistoricalPriceResponses :
          FmpHistoricalPrice(r, resp)
    \/ \E r \in Requests : \E resp \in DividendResponses :
          FmpDividendInfo(r, resp)
    \/ \E r \in Requests : \E resp \in FmpGrowthResponses :
          FmpGrowthMetrics(r, resp)
    \/ \E r \in Requests : \E resp \in GeminiGrowthResponses :
          GeminiGrowthMetrics(r, resp)
    \/ \E s \in TickerSpellings : screenTickerInternal(s)
    \/ \E r \in Requests : \E resp \in GeminiStockDataResponses :
          GeminiStockData(r, resp)
    \/ \E r \in Requests : \E resp \in YahooResponses :
          YahooFinancials(r, resp)
    \/ \E r \in Requests : \E resp \in EdgarGrowthResponses :
          EdgarGrowthMetrics(r, resp)
    \/ \E r \in Requests : \E resp \in AlphaVantageResponses :
          AlphaVantageGrowthMetrics(r, resp)
    \/ PipelineTick

Spec == Init /\ [][Next]_vars

----------------------------------------------------------------------------
(* SpecLive: screenTicker with an upstream that may never answer *)

\* The upstream a provider call of screenTicker sends its request to: the
\* FMP API through fetch, Gemini through its SDK.
Upstreams == {"fmp", "gemini"}

UpstreamOf(call) ==
    IF call = "gemini.searchGrowthMetrics" THEN "gemini" ELSE "fmp"

\* The call request r awaits can settle: its request is not with an upstream
\* that never answers. No call is given a timeout or an abort signal, so
\* nothing else settles it.
Settles(r) == r \in Requests /\ UpstreamOf(req[r].pc) \notin silent

InitLive ==
    /\ IdleRest /\ IdleGrowth /\ IdleScore /\ IdleClock /\ IdleCache /\ IdleAlphaVantage /\ IdleEdgar
    /\ screening_results = {}
    /\ \E e \in Environments :
          /\ env = [geminiKey |-> e.geminiKey, avKey |-> e.avKey]
          /\ alphaVantage =
                [dailyCallCount |-> e.recorded, dailyCallReset |-> 0]
    /\ req = <<>>
    /\ \E u \in Upstreams : silent \in {{}, {u}}

LiveArrives == \E s \in TickerSpellings : screenTicker(s)

LiveFmpStockData ==
    \E r \in Requests : \E resp \in FmpStockDataResponses :
        Settles(r) /\ FmpStockData(r, resp)

LiveFmpHistoricalPrice ==
    \E r \in Requests : \E resp \in HistoricalPriceResponses :
        Settles(r) /\ FmpHistoricalPrice(r, resp)

LiveFmpDividendInfo ==
    \E r \in Requests : \E resp \in DividendResponses :
        Settles(r) /\ FmpDividendInfo(r, resp)

LiveFmpGrowthMetrics ==
    \E r \in Requests : \E resp \in FmpGrowthResponses :
        Settles(r) /\ FmpGrowthMetrics(r, resp)

LiveGeminiGrowthMetrics ==
    \E r \in Requests : \E resp \in GeminiGrowthResponses :
        Settles(r) /\ GeminiGrowthMetrics(r, resp)

NextLive ==
    \/ LiveArrives
    \/ LiveFmpStockData
    \/ LiveFmpHistoricalPrice
    \/ LiveFmpDividendInfo
    \/ LiveFmpGrowthMetrics
    \/ LiveGeminiGrowthMetrics

\* Every call sent to an upstream that answers is answered, and the handler
\* then runs on.
FairLive ==
    /\ WF_vars(LiveFmpStockData)
    /\ WF_vars(LiveFmpHistoricalPrice)
    /\ WF_vars(LiveFmpDividendInfo)
    /\ WF_vars(LiveFmpGrowthMetrics)
    /\ WF_vars(LiveGeminiGrowthMetrics)

SpecLive == InitLive /\ [][NextLive]_vars /\ FairLive

----------------------------------------------------------------------------
(* SpecEdgar: calls of EdgarService.getFinancials and getCik *)

MaxEdgarCalls == 3

EdgarYears == {2025, 2026}

InitEdgar ==
    /\ IdleRest /\ IdleGrowth /\ IdleScore /\ IdleClock /\ IdleCache /\ IdlePipeline
    /\ IdleAlphaVantage /\ IdleTransport
    /\ fetchRetry = NoFetch
    /\ edgar_cik_mapping = [t \in Tickers |-> Missing]
    /\ edgar_financials = [t \in Tickers |-> {}]
    /\ cikCache = [t \in Tickers |-> Missing]
    /\ edgarCalls = <<>>
    /\ calendarYear \in EdgarYears

EdgarCallIds == 1..Len(edgarCalls)

\* getFinancials(ticker, forceRefresh) up to its first await: the cached
\* data are returned, or getCik starts (and ends at once when the CIK is in
\* memory or in the table).
getFinancials(spelling, forceRefresh) ==
    /\ Len(edgarCalls) < MaxEdgarCalls
    /\ LET ticker == toUpperCase(spelling)
           cached == getCachedFinancials(edgar_financials, edgar_cik_mapping,
                                         ticker)
           known  == lookupCik(cikCache, edgar_cik_mapping, ticker)
           call   == EdgarCall("getFinancials", ticker, forceRefresh,
                               calendarYear,
                               IF Has(cached)
                               THEN Some(Val(cached).lastFiscalYear)
                               ELSE Missing)
       IN  IF usesCache(cached, forceRefresh, calendarYear)
           THEN /\ edgarCalls' =
                      Append(edgarCalls,
                             [call EXCEPT !.pc = "done", !.returned = "cached",
                                          !.cik = Some(Val(cached).cik)])
                /\ UNCHANGED cikCache
           ELSE IF Has(known)
           THEN /\ edgarCalls' =
                      Append(edgarCalls,
                             [call EXCEPT !.pc = "getCompanyFacts",
                                          !.cik = known])
                /\ cikCache' = [cikCache EXCEPT ![ticker] = known]
           ELSE /\ edgarCalls' = Append(edgarCalls,
                                        [call EXCEPT !.pc = "getCik"])
                /\ UNCHANGED cikCache
    /\ UNCHANGED <<restVars, growthVars, scoreVars, clockVars, cacheVars, pipeVars, avVars,
                   transportVars, fetchRetry, edgar_cik_mapping,
                   edgar_financials, calendarYear>>

\* getCik(ticker) called on its own.
getCik(spelling) ==
    /\ Len(edgarCalls) < MaxEdgarCalls
    /\ LET ticker == toUpperCase(spelling)
           known  == lookupCik(cikCache, edgar_cik_mapping, ticker)
           call   == EdgarCall("getCik", ticker, FALSE, calendarYear, Missing)
       IN  IF Has(known)
           THEN /\ edgarCalls' =
                      Append(edgarCalls,
                             [call EXCEPT !.pc = "done", !.cik = known,
                                          !.returned = "cik"])
                /\ cikCache' = [cikCache EXCEPT ![ticker] = known]
           ELSE /\ edgarCalls' = Append(edgarCalls,
                                        [call EXCEPT !.pc = "getCik"])
                /\ UNCHANGED cikCache
    /\ UNCHANGED <<restVars, growthVars, scoreVars, clockVars, cacheVars, pipeVars, avVars,
                   transportVars, fetchRetry, edgar_cik_mapping,
                   edgar_financials, calendarYear>>

\* The fetch of company_tickers.json of call i ends: a found entry is
\* written to the mapping table and to the memory cache.
TickerFileAnswers(i, resp) ==
    /\ edgarCalls[i].pc = "getCik"
    /\ LET c0  == [edgarCalls[i] EXCEPT !.network = TRUE]
           cik == padStart(resp.cik_str, 10)
       IN  IF resp.ok /\ resp.found
           THEN LET c == [c0 EXCEPT !.directory = "found", !.cik = Some(cik)]
                IN  /\ edgar_cik_mapping' =
                          saveCikMapping(edgar_cik_mapping, c.ticker, cik,
                                         resp.title, now)
                    /\ cikCache' = [cikCache EXCEPT ![c.ticker] = Some(cik)]
                    /\ edgarCalls' =
                          [edgarCalls EXCEPT ![i] =
                              IF c.op = "getCik"
                              THEN [c EXCEPT !.pc = "done", !.returned = "cik"]
                              ELSE [c EXCEPT !.pc = "getCompanyFacts"]]
           ELSE /\ edgarCalls' =
                      [edgarCalls EXCEPT ![i] =
                          [c0 EXCEPT !.pc = "done", !.returned = "null",
                                     !.directory = IF resp.ok THEN "absent"
                                                   ELSE "failed"]]
                /\ UNCHANGED <<edgar_cik_mapping, cikCache>>
    /\ UNCHANGED <<restVars, growthVars, scoreVars, clockVars, cacheVars, pipeVars, avVars,
                   transportVars, fetchRetry, edgar_financials, calendarYear>>

\* The fetch of the company facts of call i ends: the yearly rows are
\* saved and the mapping row is written again with the facts' entityName
\* (the ticker when the facts have none).
CompanyFactsAnswers(i, resp) ==
    /\ edgarCalls[i].pc = "getCompanyFacts"
    /\ LET c == [edgarCalls[i] EXCEPT !.network = TRUE]
       IN  IF resp.ok
           THEN /\ edgar_financials' =
                      saveFinancials(edgar_financials, c.ticker, resp.years)
                /\ edgar_cik_mapping' =
                      saveCikMapping(edgar_cik_mapping, c.ticker, Val(c.cik),
                                     IF Has(resp.entityName)
                                     THEN Val(resp.entityName) ELSE c.ticker,
                                     now)
                /\ edgarCalls' =
                      [edgarCalls EXCEPT ![i] =
                          [c EXCEPT !.pc = "done", !.returned = "fresh"]]
           ELSE /\ edgarCalls' =
                      [edgarCalls EXCEPT ![i] =
                          [c EXCEPT !.pc = "done", !.returned = "null"]]
                /\ UNCHANGED <<edgar_cik_mapping, edgar_financials>>
    /\ UNCHANGED <<restVars, growthVars, scoreVars, clockVars, cacheVars, pipeVars, avVars,
                   transportVars, fetchRetry, cikCache, calendarYear>>

\* The process restarts: the memory cache is empty again, the tables stay,
\* and the calls still running are lost.
EdgarRestart ==
    /\ cikCache' = [t \in Tickers |-> Missing]
    /\ edgarCalls' =
          [i \in EdgarCallIds |->
              IF edgarCalls[i].pc = "done" THEN edgarCalls[i]
              ELSE [edgarCalls[i] EXCEPT !.pc = "done", !.returned = "lost"]]
    /\ UNCHANGED <<restVars, growthVars, scoreVars, clockVars, cacheVars, pipeVars, avVars,
                   transportVars, fetchRetry, edgar_cik_mapping,
                   edgar_financials, calendarYear>>

NextEdgar ==
    \/ \E s \in TickerSpellings : \E forceRefresh \in BOOLEAN :
          getFinancials(s, forceRefresh)
    \/ \E s \in TickerSpellings : getCik(s)
    \/ \E i \in EdgarCallIds : \E resp \in TickerFileResponses :
          TickerFileAnswers(i, resp)
    \/ \E i \in EdgarCallIds : \E resp \in CompanyFactsResponses :
          CompanyFactsAnswers(i, resp)
    \/ EdgarRestart

SpecEdgar == InitEdgar /\ [][NextEdgar]_vars

----------------------------------------------------------------------------
(* SpecGrowth: calculateCAGR of each provider on one series *)

MaxPoints == 3

SeriesYears == 2020..2024

SeriesValues == {-100, 0, 100}

CagrValues == {-200, -100, 0, 100}

CagrYears == {0, 1, 3}

Series ==
    UNION {[ys -> SeriesValues] : ys \in {S \in SUBSET SeriesYears :
                                             Cardinality(S) <= MaxPoints}}

pointsOf(f) == {[year |-> y, value |-> f[y]] : y \in DOMAIN f}

InitGrowth ==
    /\ IdleRest /\ IdleScore /\ IdleClock /\ IdleCache /\ IdlePipeline /\ IdleServices
    /\ \E f \in Series : history = pointsOf(f)
    /\ cagrArgs \in CagrValues \X CagrValues \X CagrYears
    /\ cagr = NoCagr

EdgarCagr ==
    /\ cagr.edgar = NotCalled
    /\ cagr' = [cagr EXCEPT !.edgar = EdgarService_calculateCAGR(history)]
    /\ UNCHANGED <<restVars, history, cagrArgs, scoreVars, clockVars, cacheVars,
                   pipeVars, svcVars>>

AlphaVantageCagr ==
    /\ cagr.alphaVantage = NotCalled
    /\ cagr' = [cagr EXCEPT
                   !.alphaVantage = AlphaVantageService_calculateCAGR(history)]
    /\ UNCHANGED <<restVars, history, cagrArgs, scoreVars, clockVars, cacheVars,
                   pipeVars, svcVars>>

YahooCagr ==
    /\ cagr.yahoo = NotCalled
    /\ cagr' = [cagr EXCEPT !.yahoo = YahooFinanceService_calculateCAGR(history)]
    /\ UNCHANGED <<restVars, history, cagrArgs, scoreVars, clockVars, cacheVars,
                   pipeVars, svcVars>>

FmpCagr ==
    /\ cagr.fmp = NotCalled
    /\ cagr' = [cagr EXCEPT
                   !.fmp = FMPApiService_calculateCAGR(cagrArgs[1], cagrArgs[2],
                                                       cagrArgs[3])]
    /\ UNCHANGED <<restVars, history, cagrArgs, scoreVars, clockVars, cacheVars,
                   pipeVars, svcVars>>

NextGrowth == EdgarCagr \/ AlphaVantageCagr \/ YahooCagr \/ FmpCagr

SpecGrowth == InitGrowth /\ [][NextGrowth]_vars

----------------------------------------------------------------------------
(* SpecBulk: one bulk screening of the universe *)

\* The universe: data/russell2000 lists about two thousand symbols.
RUSSELL_2000_STOCKS == <<"AAA", "BBB", "CCC">>

BulkTickers == {RUSSELL_2000_STOCKS[i] : i \in DOMAIN RUSSELL_2000_STOCKS}

\* req.query.limit: absent, 0 (falsy), small, above the cap, and negative.
LimitParams == {Missing, Some(0), Some(1), Some(2), Some(60), Some(-1)}

\* req.query.minMarketCap and maxMarketCap, in thousands of dollars.
MarketCapRanges == {<<0, Missing>>, <<1000000, Missing>>, <<0, Some(1000000)>>}

\* What fetchTickerData may give for a ticker: null or a preScreenScore.
PreScreenScores == {Missing, Some(5), Some(8), Some(12)}

\* What the screening of a symbol may fetch: the records of SpecCache, and the
\* sample stock with its assets unchanged over the years (assetGrowth = 0).
BulkRecords(symbol, t) ==
    CacheRecords(symbol, t)
    \cup {CachedStockData(symbol, [sampleStock EXCEPT !.assetGrowth = Some(0)],
                          TRUE, t)}

\* A record screened at time 0, and its result row.
EarlierRecord == CachedStockData("AAA", sampleStock, TRUE, 0)

InitBulk ==
    /\ IdleGrowth /\ IdleScore /\ IdleServices
    /\ now \in {60 * 60 * 1000, 25 * 60 * 60 * 1000}
    /\ ticks = 0
    /\ \E earlier \in BOOLEAN :
          /\ stock_cache =
                [k \in BulkTickers |->
                    IF earlier /\ k = "AAA" THEN Some(RowOf(EarlierRecord))
                    ELSE Missing]
          /\ screening_results =
                IF earlier
                THEN saveScreeningResult({}, EarlierRecord,
                         calculateScores(ScoringInputOf(EarlierRecord)), 0)
                ELSE {}
    /\ lastGet = Missing /\ lastClear = Missing
    /\ env = [geminiKey |-> TRUE, avKey |-> TRUE]
    /\ alphaVantage = [dailyCallCount |-> 0, dailyCallReset |-> 0]
    /\ req = <<>>
    /\ bulk = NoBulk
    /\ IdlePrice /\ IdlePreScreen /\ IdleStats

BulkUnchanged ==
    UNCHANGED <<priceLookup, preScreen, lastStats, growthVars, scoreVars, clockVars, lastGet, lastClear, env,
                alphaVantage, req, svcVars>>

\* GET /bulk/:exchange up to the choice of the symbols, or to the pre-screen.
bulkScreen(limit, range, skipPreScreen) ==
    /\ bulk.pc = "idle"
    /\ bulk' = bulkSelect(
                   BulkRequest(bulkLimit(limit), range[1], range[2], skipPreScreen),
                   RUSSELL_2000_STOCKS, screening_results, now)
    /\ UNCHANGED <<stock_cache, screening_results>>
    /\ BulkUnchanged

\* preScreeningService.preScreenForBulk answers.
BulkPreScreenAnswers(fetched) ==
    /\ bulk.pc = "preScreen"
    /\ bulk' = bulkPreScreened(bulk, fetched)
    /\ UNCHANGED <<stock_cache, screening_results>>
    /\ BulkUnchanged

\* The symbol the loop has reached.
bulkSymbol == bulk.symbolsToScreen[Len(bulk.attempted) + 1]

\* One turn of the loop: screenTickerInternal(symbol) returns a result. The
\* record is the cached one when fresh, else the fetched one, which is saved.
BulkScreens ==
    /\ bulk.pc = "loop"
    /\ Len(bulk.attempted) < Len(bulk.symbolsToScreen)
    /\ LET cached == getCachedStock(stock_cache, bulkSymbol, now)
       IN  \E fetched \in BulkRecords(toUpperCase(bulkSymbol), now) :
              LET stockData == IF Has(cached) THEN Val(cached) ELSE fetched
                  scores    == calculateScores(ScoringInputOf(stockData))
              IN  /\ stock_cache' = IF Has(cached) THEN stock_cache
                                    ELSE saveStockData(stock_cache, stockData)
                  /\ screening_results' =
                        saveScreeningResult(screening_results, stockData,
                                            scores, now)
                  /\ bulk' = bulkScreened(bulk, bulkSymbol, stockData, scores)
    /\ BulkUnchanged

\* One turn of the loop: geminiService.getStockData throws for a symbol that
\* is not cached.
BulkThrows ==
    /\ bulk.pc = "loop"
    /\ Len(bulk.attempted) < Len(bulk.symbolsToScreen)
    /\ ~Has(getCachedStock(stock_cache, bulkSymbol, now))
    /\ bulk' = bulkFailed(bulk, bulkSymbol)
    /\ UNCHANGED <<stock_cache, screening_results>>
    /\ BulkUnchanged

\* After the last symbol: results.sort and res.json.
BulkResponds ==
    /\ bulk.pc = "loop"
    /\ Len(bulk.attempted) = Len(bulk.symbolsToScreen)
    /\ bulk' = bulkRespond(bulk)
    /\ UNCHANGED <<stock_cache, screening_results>>
    /\ BulkUnchanged

NextBulk ==
    \/ \E limit \in LimitParams, range \in MarketCapRanges,
          skipPreScreen \in BOOLEAN : bulkScreen(limit, range, skipPreScreen)
    \/ \E fetched \in [BulkTickers -> PreScreenScores] :
          BulkPreScreenAnswers(fetched)
    \/ BulkScreens
    \/ BulkThrows
    \/ BulkResponds

SpecBulk == InitBulk /\ [][NextBulk]_vars

----------------------------------------------------------------------------
(* SpecPrice: the price of six months ago, found in a daily series *)

\* How many daily prices a series holds.
MaxPrices == 3

\* The day of the lookup; 180 days before it is day 20.
PriceToday == 200

\* The days with a price: before, on and after the target date.
PriceDates == {17, 19, 20, 21, 22}

PriceCloses == {0, 50}

DailyPrices ==
    {S \in SUBSET [date : PriceDates, close : PriceCloses] :
        /\ Cardinality(S) <= MaxPrices
        /\ \A p, q \in S : p.date = q.date => p = q}

\* The chart API lists its timestamps oldest first.
RECURSIVE oldestFirst(_)
oldestFirst(S) ==
    IF S = {} THEN <<>>
    ELSE LET p == CHOOSE q \in S : \A o \in S : q.date <= o.date
         IN  <<p>> \o oldestFirst(S \ {p})

\* "Historical data is sorted newest first".
RECURSIVE newestFirst(_)
newestFirst(S) ==
    IF S = {} THEN <<>>
    ELSE LET p == CHOOSE q \in S : \A o \in S : o.date <= q.date
         IN  <<p>> \o newestFirst(S \ {p})

InitPrice ==
    /\ IdleBulk /\ IdlePreScreen /\ IdleStats /\ IdleGrowth /\ IdleScore /\ IdleClock /\ IdleCache
    /\ IdlePipeline /\ IdleServices
    /\ \E S \in DailyPrices :
          \E historical \in {Missing, Some(newestFirst(S))} :
              priceLookup = [NoPriceLookup EXCEPT !.today = PriceToday,
                                                  !.prices = oldestFirst(S),
                                                  !.historical = historical]

PriceUnchanged ==
    UNCHANGED <<bulk, preScreen, lastStats, growthVars, scoreVars, clockVars, cacheVars, pipeVars,
                svcVars>>

PriceCalled(found) ==
    [called |-> TRUE, point |-> found.point, returned |-> found.returned]

\* yahooFinanceService.getPrice6MonthsAgo(ticker).
YahooPrice6MonthsAgo ==
    /\ ~priceLookup.yahoo.called
    /\ priceLookup' =
          [priceLookup EXCEPT !.yahoo =
              PriceCalled(YahooFinanceService_getPrice6MonthsAgo(
                              priceLookup.prices, priceLookup.today))]
    /\ PriceUnchanged

\* fmpApiService.getHistoricalPrice(ticker, 180).
FmpPrice6MonthsAgo ==
    /\ ~priceLookup.fmp.called
    /\ priceLookup' =
          [priceLookup EXCEPT !.fmp =
              PriceCalled(FMPApiService_getHistoricalPrice(
                              priceLookup.historical, priceLookup.today, 180))]
    /\ PriceUnchanged

NextPrice == YahooPrice6MonthsAgo \/ FmpPrice6MonthsAgo

SpecPrice == InitPrice /\ [][NextPrice]_vars

----------------------------------------------------------------------------
(* SpecAv: concurrent calls of AlphaVantageService *)

\* How many calls (a getGrowthMetrics counts with its two statement calls)
\* a run makes, and how often its clock advances.
MaxAvCalls == 4

MaxAvTicks == 3

AvClockSteps == {AV_MIN_TIME, MS_PER_DAY}

\* How many fetches the service has sent and recorded, one every 12 seconds,
\* since it was constructed at time 0.
AvRecordedAtStart == {0, 24}

InitAv ==
    /\ IdleRest /\ IdleGrowth /\ IdleScore /\ IdleCache
    /\ screening_results = {} /\ req = <<>>
    /\ avCalls = <<>> /\ avCache = Missing
    /\ IdleEdgar /\ IdleTransport
    /\ ticks = 0
    /\ \E n \in AvRecordedAtStart : \E key \in BOOLEAN :
          /\ (~key => n = 0)
          /\ env = [geminiKey |-> TRUE, avKey |-> key]
          /\ alphaVantage = [dailyCallCount |-> n, dailyCallReset |-> 0]
          /\ avHttp = [i \in 1..n |-> (i - 1) * AV_MIN_TIME]
          /\ avLimiter =
                [lastStart |->
                    IF n = 0 THEN Missing ELSE Some((n - 1) * AV_MIN_TIME)]
          /\ now = n * AV_MIN_TIME

\* A direct call of getIncomeStatements(ticker) or getBalanceSheets(ticker).
getStatements(op) ==
    /\ Len(avCalls) < MaxAvCalls
    /\ avCalls' =
          Append(avCalls, statementCall(op, 0, env.avKey, alphaVantage, now))
    /\ alphaVantage' = avAfterCheck(env.avKey, alphaVantage, now)
    /\ UNCHANGED <<restVars, growthVars, scoreVars, clockVars, cacheVars, screening_results, env,
                   req, avLimiter, avHttp, avCache, edgarVars, transportVars>>

getIncomeStatements == getStatements("getIncomeStatements")

getBalanceSheets == getStatements("getBalanceSheets")

\* getGrowthMetrics(ticker) up to its await: the result cache, the key, the
\* budget, and then both statement calls of Promise.all, each of which runs
\* its own check and schedules its fetch before any fetch is launched.
getGrowthMetrics ==
    LET cached == Has(avCache) /\ now - Val(avCache).timestamp < CACHE_TTL
        checked == ~cached /\ env.avKey
        admitted == checked /\ canMakeCall(alphaVantage, now)
        a1 == IF checked THEN avRollover(alphaVantage, now) ELSE alphaVantage
        p == Len(avCalls) + 1
    IN  /\ Len(avCalls) + (IF admitted THEN 3 ELSE 1) <= MaxAvCalls
        /\ alphaVantage' = a1
        /\ avCalls' =
              IF cached
              THEN Append(avCalls,
                          AvCall("getGrowthMetrics", 0, "done", "cached", FALSE))
              ELSE IF ~admitted
              THEN Append(avCalls,
                          AvCall("getGrowthMetrics", 0, "done", "unavailable",
                                 checked))
              ELSE avCalls \o
                   <<AvCall("getGrowthMetrics", 0, "waiting", "pending", FALSE),
                     statementCall("getIncomeStatements", p, env.avKey, a1, now),
                     statementCall("getBalanceSheets", p, env.avKey, a1, now)>>
        /\ UNCHANGED <<restVars, growthVars, scoreVars, clockVars, cacheVars, screening_results, env,
                       req, avLimiter, avHttp, avCache, edgarVars, transportVars>>

\* avLimiter launches the oldest scheduled job, which sends its request:
\* one job at a time, AV_MIN_TIME after the previous launch.
AvFetch(i) ==
    /\ avCalls[i].pc = "queued"
    /\ \A j \in 1..Len(avCalls) : avCalls[j].pc # "fetching"
    /\ \A j \in 1..(i - 1) : avCalls[j].pc # "queued"
    /\ IF Has(avLimiter.lastStart)
       THEN now - Val(avLimiter.lastStart) >= AV_MIN_TIME ELSE TRUE
    /\ avCalls' = [avCalls EXCEPT ![i].pc = "fetching", ![i].sentAt = Some(now)]
    /\ avHttp' = Append(avHttp, now)
    /\ avLimiter' = [lastStart |-> Some(now)]
    /\ UNCHANGED <<restVars, growthVars, scoreVars, clockVars, cacheVars, pipeVars, avCache,
                   edgarVars, transportVars>>

\* The request of job i comes back: recordCall() only for an ok answer
\* without the limit note; every other outcome returns [].
AvAnswer(i, outcome) ==
    /\ avCalls[i].pc = "fetching"
    /\ avCalls' =
          [avCalls EXCEPT ![i].pc = "done",
                          ![i].returned =
                              IF outcome = "ok" THEN "reports" ELSE "empty"]
    /\ alphaVantage' =
          IF outcome = "ok" THEN recordCalls(alphaVantage, 1) ELSE alphaVantage
    /\ UNCHANGED <<restVars, growthVars, scoreVars, clockVars, cacheVars, screening_results, env,
                   req, avLimiter, avHttp, avCache, edgarVars, transportVars>>

\* getGrowthMetrics after Promise.all: the growth rates are computed (null
\* without reports, and possibly null with them) and the result is cached.
AvGrowthDone(p, computable) ==
    /\ avCalls[p].pc = "waiting"
    /\ \A j \in 1..Len(avCalls) :
          avCalls[j].parent = p => avCalls[j].pc = "done"
    /\ LET reports == \E j \in 1..Len(avCalls) :
                          avCalls[j].parent = p /\ avCalls[j].returned = "reports"
           source == IF reports /\ computable
                     THEN "alphavantage" ELSE "unavailable"
       IN  /\ avCalls' = [avCalls EXCEPT ![p].pc = "done",
                                          ![p].returned = source]
           /\ avCache' = Some([source |-> source, timestamp |-> now])
    /\ UNCHANGED <<restVars, growthVars, scoreVars, clockVars, cacheVars, pipeVars, avLimiter,
                   avHttp, edgarVars, transportVars>>

AvTick ==
    /\ \E d \in AvClockSteps : Tick(d, MaxAvTicks)
    /\ UNCHANGED <<restVars, growthVars, scoreVars, cacheVars, pipeVars, avVars, edgarVars, transportVars>>

AvCallIds == 1..Len(avCalls)

NextAv ==
    \/ getIncomeStatements
    \/ getBalanceSheets
    \/ getGrowthMetrics
    \/ \E i \in AvCallIds : AvFetch(i)
    \/ \E i \in AvCallIds : \E outcome \in AvOutcomes : AvAnswer(i, outcome)
    \/ \E p \in AvCallIds : \E computable \in BOOLEAN :
          AvGrowthDone(p, computable)
    \/ AvTick

SpecAv == InitAv /\ [][NextAv]_vars

----------------------------------------------------------------------------
(* SpecFetch: one request to the filings provider through fetchWithRetry *)

InitFetch ==
    IdleRest /\ IdleGrowth /\ IdleScore /\ IdleClock /\ IdleCache /\ IdlePipeline /\ IdleServices

\* fetchWithRetry(url) is called: attempt = 0 and the first fetch is sent.
fetchWithRetry ==
    /\ fetchRetry.pc = "idle"
    /\ fetchRetry' = [fetchRetry EXCEPT !.pc = "fetching"]
    /\ UNCHANGED <<restVars, growthVars, scoreVars, clockVars, cacheVars, pipeVars, avVars, transportVars,
                   edgarDbVars>>

\* The pending fetch ends with res.
FetchEnds(res) ==
    /\ fetchRetry.pc = "fetching"
    /\ fetchRetry' = afterFetch(fetchRetry, res)
    /\ UNCHANGED <<restVars, growthVars, scoreVars, clockVars, cacheVars, pipeVars, avVars, transportVars,
                   edgarDbVars>>

\* setTimeout(resolve, backoffTime) fires after backoffTime milliseconds.
FetchBackoff ==
    /\ fetchRetry.pc = "waiting"
    /\ fetchRetry' = afterBackoff(fetchRetry)
    /\ now' = now + backoffTime(fetchRetry.attempt)
    /\ UNCHANGED <<restVars, growthVars, scoreVars, ticks, cacheVars, pipeVars, avVars, transportVars,
                   edgarDbVars>>

NextFetch ==
    \/ fetchWithRetry
    \/ \E res \in FetchResults : FetchEnds(res)
    \/ FetchBackoff

SpecFetch == InitFetch /\ [][NextFetch]_vars

----------------------------------------------------------------------------
(* Claims about the cache, checked under SpecCache *)

Hours(n) == n * 60 * 60 * 1000

Minutes(n) == n * 60 * 1000

Seconds(n) == n * 1000

\* C1: at any time, getCachedStock(ticker) returns the stored record if and
\* only if a row for the ticker exists and now - dataFetchedAt < 24h, and null
\* otherwise; a record written at T is a hit at T+23h59m and a miss at
\* T+24h00m01s.
C1_CacheHitIffFresh ==
    Has(lastGet) =>
        LET g   == Val(lastGet)
            hit == Has(g.returned)
        IN  /\ ~Has(g.row) => ~hit
            /\ Has(g.row) =>
                  LET T == Val(g.row).dataFetchedAt
                  IN  /\ hit <=> g.at - T < Hours(24)
                      /\ hit => Val(g.returned)
                                  \in CacheRecords(toUpperCase(g.ticker), T)
                      /\ g.at = T + Hours(23) + Minutes(59) => hit
                      /\ g.at = T + Hours(24) + Seconds(1) => ~hit

\* A read at T+24h00m01s of a row written at T, answered null.
C1_Witness ==
    /\ Has(lastGet)
    /\ Has(Val(lastGet).row)
    /\ Val(lastGet).at
          = Val(Val(lastGet).row).dataFetchedAt + Hours(24) + Seconds(1)
    /\ ~Has(Val(lastGet).returned)

----------------------------------------------------------------------------
(* Claims about the screening pipeline, checked under Spec *)

\* The provider calls whose answer is merged into a record already built.
FallbackProviders ==
    {"gemini.searchGrowthMetrics", "yahoo.getCompleteFinancials",
     "edgar.getGrowthMetrics", "alphaVantage.getGrowthMetrics"}

\* The nullable fields of a record.
NullableFields ==
    {"fcf", "bookValue", "ebitdaMargin", "roa", "assetGrowth", "ebitdaGrowth",
     "dividendYield", "price6MonthsAgo"}

\* C2: in every merge step (the Gemini growth fallback of screenTicker; the
\* Yahoo, EDGAR and Alpha Vantage fallbacks of the bulk path) a field that is
\* non-null before the step has the same value after it, whatever the
\* fallback provider returned.
C2_FillOnlyMerge ==
    [][\A r \in Requests :
          req[r].pc \in FallbackProviders =>
             \A f \in NullableFields :
                Has(req[r].data[f]) => req'[r].data[f] = req[r].data[f]]_vars

\* On each path a finished screening in which a fallback offered a value for
\* a field that was already populated with another value.
C2_Witness ==
    \A path \in {"single", "bulk"} :
       \E r \in Requests :
          /\ req[r].path = path
          /\ req[r].pc = "done"
          /\ \E m \in req[r].merges :
                /\ Has(m.before) /\ Has(m.offered)
                /\ m.offered # m.before
                /\ req[r].data[m.field] = m.before

\* C3: if fmpApiService.getStockData throws on a cache miss, the request ends
\* with a failure response for the ticker and writes nothing: stock_cache and
\* screening_results are the same after the failing step as before it, and
\* the request has made no write at all.
C3_PrimaryFailureWritesNothing ==
    [][\A r \in 1..Len(req') :
          "fmp.getStockData" \in req'[r].failures =>
             /\ req'[r].pc = "done"
             /\ Has(req'[r].response)
             /\ ~Val(req'[r].response).ok
             /\ Val(req'[r].response).ticker = req'[r].ticker
             /\ req'[r].writes = {}
             /\ req'[r].calls = {"fmp.getStockData"}
             /\ (r \in Requests /\ req[r].pc = "fmp.getStockData") =>
                   /\ stock_cache' = stock_cache
                   /\ screening_results' = screening_results]_vars

\* A screening failed by the primary provider while the tables hold the rows
\* of another screening.
C3_Witness ==
    \E r \in Requests :
       /\ "fmp.getStockData" \in req[r].failures
       /\ req[r].pc = "done"
       /\ \E t \in Tickers : Has(stock_cache[t])
       /\ screening_results # {}

C5_CacheHitSkipsProviders ==
    [][\A r \in 1..Len(req') :
          LET q == req'[r]
              cached == getCachedStock(stock_cache, q.ticker, now)
          IN  /\ r \notin Requests =>
                    /\ Has(cached) <=> q.dataSource = "cache"
                    /\ Has(cached) =>
                          /\ q.data = Val(cached)
                          /\ stock_cache' = stock_cache
              /\ q.dataSource = "cache" =>
                    /\ q.calls = {}
                    /\ "stock_cache" \notin q.writes
                    /\ q.pc = "done"
                    /\ Has(q.response) /\ Val(q.response).ok
                    /\ Val(q.response).dataSource = "cache"
                    /\ Val(q.response).factors
                          = calculateScores(ScoringInputOf(q.data))]_vars

\* A screening answered from a record that another screening cached a
\* millisecond earlier.
C5_Witness ==
    \E r \in Requests :
       /\ req[r].dataSource = "cache"
       /\ req[r].pc = "done"
       /\ Val(req[r].response).dataSource = "cache"
       /\ Val(req[r].response).timestamp
             = Val(stock_cache[req[r].ticker]).dataFetchedAt + 1

----------------------------------------------------------------------------
(* Claims about the scoring engine, checked under SpecScore *)

\* The fixed maximum of each factor.
FactorMax ==
    [fcfYield |-> 25, size |-> 15, bookToMarket |-> 15,
     investmentPattern |-> 15, ebitdaMargin |-> 10, roa |-> 10,
     priceRange |-> 10, momentum |-> 5, dividend |-> 5]

\* C6: for every scoring input, total is the sum of the nine factor scores,
\* 0 <= total <= 110, and every factor score lies between 0 and the factor's
\* fixed maxScore (25, 15, 15, 15, 10, 10, 10, 5, 5).
C6_TotalIsSumWithinBounds ==
    Scored =>
        /\ result.total =
              result.fcfYield.score + result.size.score
              + result.bookToMarket.score + result.investmentPattern.score
              + result.ebitdaMargin.score + result.roa.score
              + result.priceRange.score + result.momentum.score
              + result.dividend.score
        /\ 0 <= result.total /\ result.total <= Pts(110)
        /\ result.maxTotal = 110
        /\ \A f \in FactorNames :
              /\ result[f].maxScore = FactorMax[f]
              /\ 0 <= result[f].score
              /\ result[f].score <= Pts(FactorMax[f])

\* A scored input whose total mixes the half-point momentum estimate, a
\* middle band and a top band.
C6_Witness ==
    /\ Scored
    /\ result.momentum.score = 5
    /\ result.roa.score = Pts(6)
    /\ result.fcfYield.score = Pts(25)
    /\ result.total > Pts(50)

\* C7: the classification is STRONG BUY iff percentage >= 70 (total >= 77),
\* MODERATE BUY iff 55 <= percentage < 70 (60.5 <= total < 77), WEAK BUY iff
\* 40 <= percentage < 55 (44 <= total < 60.5) and AVOID iff percentage < 40;
\* being a step function of total it is monotone non-decreasing in total.
C7_ClassificationByPercentage ==
    Scored =>
        LET t  == result.total
            sb == result.classification = "STRONG BUY"
            mb == result.classification = "MODERATE BUY"
            wb == result.classification = "WEAK BUY"
            av == result.classification = "AVOID"
        IN  /\ sb <=> t >= Pts(77)
            /\ mb <=> (t >= Pts(60) + 1 /\ t < Pts(77))
            /\ wb <=> (t >= Pts(44) /\ t < Pts(60) + 1)
            /\ av <=> t < Pts(44)
            /\ sb <=> 100 * t >= 70 * Pts(110)
            /\ mb <=> (100 * t >= 55 * Pts(110) /\ 100 * t < 70 * Pts(110))
            /\ wb <=> (100 * t >= 40 * Pts(110) /\ 100 * t < 55 * Pts(110))
            /\ av <=> 100 * t < 40 * Pts(110)

\* A total of exactly 60.5 points (55%), classified MODERATE BUY.
C7_Witness ==
    /\ Scored
    /\ result.total = Pts(60) + 1
    /\ result.classification = "MODERATE BUY"

FcfBand(fcf, mc) ==
    IF PctGT(fcf, mc, 12) THEN Pts(25)
    ELSE IF PctGT(fcf, mc, 8) THEN Pts(20)
    ELSE IF PctGT(fcf, mc, 5) THEN Pts(15)
    ELSE IF PctGT(fcf, mc, 0) THEN Pts(8)
    ELSE 0

\* C9 (as claimed): factor 1 has maxScore 25 and scores by the band of
\* yield = freeCashFlow / marketCap * 100 (25 above 12, 20 above 8, 15 above
\* 5, 8 above 0, else 0); with freeCashFlow missing it scores 0.
C9_FcfYieldBands ==
    Scored =>
        /\ result.fcfYield.maxScore = 25
        /\ ~Has(input.freeCashFlow) => result.fcfYield.score = 0
        /\ Has(input.freeCashFlow) =>
              result.fcfYield.score
                  = FcfBand(Val(input.freeCashFlow), input.marketCap)

\* C9 (amended): the bands apply when marketCap > 0; with marketCap <= 0, or
\* freeCashFlow missing, the score is 0.
C9_FcfYieldBandsPositiveCap ==
    Scored =>
        /\ result.fcfYield.maxScore = 25
        /\ ~Has(input.freeCashFlow) => result.fcfYield.score = 0
        /\ input.marketCap <= 0 => result.fcfYield.score = 0
        /\ (Has(input.freeCashFlow) /\ input.marketCap > 0) =>
              result.fcfYield.score
                  = FcfBand(Val(input.freeCashFlow), input.marketCap)

\* A yield of exactly 12% on a positive market cap, scored 20 and not 25.
C9_Witness ==
    /\ Scored
    /\ Has(input.freeCashFlow)
    /\ input.marketCap > 0
    /\ 100 * Val(input.freeCashFlow) = 12 * input.marketCap
    /\ result.fcfYield.score = Pts(20)

\* C10: the documented sample (every factor in its top band, the price
\* position exactly 20%) gives every factor its maxScore, total 110,
\* percentage 100 and STRONG BUY.
C10_SampleScoresMaximum ==
    (Scored /\ input = sampleStock) =>
        /\ \A f \in FactorNames : result[f].score = Pts(result[f].maxScore)
        /\ \A f \in FactorNames : result[f].maxScore = FactorMax[f]
        /\ result.total = Pts(110)
        /\ 100 * result.total = 100 * Pts(result.maxTotal)
        /\ result.classification = "STRONG BUY"

\* The sample stock has been scored; its price position is exactly 20%.
C10_Witness ==
    /\ Scored
    /\ input = sampleStock
    /\ 100 * (input.price - input.low52w)
          = 20 * (input.high52w - input.low52w)

\* An input in which every optional field is null: only price, marketCap,
\* high52w and low52w are given.
OnlyRequiredGiven(in) ==
    /\ ~Has(in.freeCashFlow) /\ ~Has(in.bookValue)
    /\ ~Has(in.ebitdaGrowth) /\ ~Has(in.assetGrowth)
    /\ ~Has(in.ebitdaMargin) /\ ~Has(in.roa)
    /\ ~Has(in.price6MonthsAgo)
    /\ ~Has(in.paysDividend) /\ ~Has(in.dividendYield)

\* The points of the size table for a market cap in thousands of dollars.
SizeBand(mc) ==
    IF mc < 350 * UnitsPerMillion THEN Pts(15)
    ELSE IF mc < 500 * UnitsPerMillion THEN Pts(12)
    ELSE IF mc < 1000 * UnitsPerMillion THEN Pts(8)
    ELSE IF mc < 2000 * UnitsPerMillion THEN Pts(4)
    ELSE 0

\* C11 (as claimed): when only price, marketCap, high52w and low52w are
\* given, the total is the momentum default 2.5 plus the price-range score,
\* every other factor contributes 0, and the classification is AVOID.
C11_OnlyRequiredTotal ==
    (Scored /\ OnlyRequiredGiven(input)) =>
        /\ result.momentum.score = 5
        /\ \A f \in FactorNames \ {"momentum", "priceRange"} :
              result[f].score = 0
        /\ result.total = result.priceRange.score + 5
        /\ result.classification = "AVOID"

\* C11 (amended): when only price, marketCap, high52w and low52w are given,
\* the total is the momentum default 2.5 plus the price-range score plus the
\* size score of the market cap (15 below $350M, 12 below $500M, 8 below
\* $1B, 4 below $2B, else 0); the six remaining factors contribute 0, the
\* total is at most 27.5 and the classification is AVOID.
C11_OnlyRequiredTotalWithSize ==
    (Scored /\ OnlyRequiredGiven(input)) =>
        /\ result.momentum.score = 5
        /\ result.size.score = SizeBand(input.marketCap)
        /\ \A f \in FactorNames \ {"momentum", "priceRange", "size"} :
              result[f].score = 0
        /\ result.total
              = result.priceRange.score + 5 + SizeBand(input.marketCap)
        /\ result.total <= Pts(27) + 1
        /\ result.classification = "AVOID"

\* An input with only the four required fields, a market cap of exactly
\* $350M and the price at 20% of the 52-week range: 12 + 10 + 2.5 points.
C11_Witness ==
    /\ Scored
    /\ OnlyRequiredGiven(input)
    /\ input.marketCap = 350 * UnitsPerMillion
    /\ result.priceRange.score = Pts(10)
    /\ result.total = Pts(24) + 1

----------------------------------------------------------------------------
(* Claims about the providers *)

\* The requests sent in the service's current budget window, the 24 hours
\* that start at dailyCallReset.
AvSentInWindow ==
    {i \in 1..Len(avHttp) :
        /\ avHttp[i] >= alphaVantage.dailyCallReset
        /\ avHttp[i] - alphaVantage.dailyCallReset <= MS_PER_DAY}

\* C12 (as claimed): within one 24h budget window AlphaVantageService sends
\* at most DAILY_LIMIT (25) HTTP requests, under every interleaving of its
\* calls, and a call that finds the budget exhausted returns an empty or
\* unavailable result without sending a request.
C12_DailyBudgetIsHard ==
    /\ Cardinality(AvSentInWindow) <= DAILY_LIMIT
    /\ \A i \in AvCallIds :
          avCalls[i].exhausted =>
              /\ avCalls[i].pc = "done"
              /\ avCalls[i].returned \in {"empty", "unavailable"}
              /\ ~Has(avCalls[i].sentAt)

AlwaysRetryable ==
    \A i \in 1..Len(fetchRetry.results) :
        /\ fetchRetry.results[i].kind = "response"
        /\ isRetryable(fetchRetry.results[i])

IsPrefix(s, t) == Len(s) <= Len(t) /\ \A i \in 1..Len(s) : s[i] = t[i]

\* C13 (as claimed): for a request answered with 429 or 5xx every time,
\* fetchWithRetry makes at most 3 attempts in total, waits 1s, 2s, 4s before
\* successive retries, and then returns the last response.
C13_AtMostThreeAttempts ==
    AlwaysRetryable =>
        /\ Len(fetchRetry.results) <= 3
        /\ IsPrefix(fetchRetry.waits, <<1000, 2000, 4000>>)
        /\ fetchRetry.pc # "threw"
        /\ fetchRetry.pc = "returned" =>
              fetchRetry.returned
                  = Some(fetchRetry.results[Len(fetchRetry.results)])

\* C13 (amended): for a request answered with 429 or 5xx every time,
\* fetchWithRetry makes 4 attempts in total (the first and MAX_RETRIES = 3
\* retries), waits 1s, 2s and 4s before the retries, and then returns the
\* last response.
C13_FourAttempts ==
    AlwaysRetryable =>
        /\ Len(fetchRetry.results) <= 1 + MAX_RETRIES
        /\ IsPrefix(fetchRetry.waits, <<1000, 2000, 4000>>)
        /\ fetchRetry.pc # "threw"
        /\ fetchRetry.pc = "returned" =>
              /\ Len(fetchRetry.results) = 4
              /\ fetchRetry.waits = <<1000, 2000, 4000>>
              /\ now = 7000
              /\ fetchRetry.returned = Some(fetchRetry.results[4])

\* A run answered 503, 429, 500 and 429 that has returned.
C13_Witness ==
    /\ fetchRetry.pc = "returned"
    /\ fetchRetry.results
          = <<HttpResponse(503), HttpResponse(429), HttpResponse(500),
              HttpResponse(429)>>

----------------------------------------------------------------------------
(* Claims about the stored tables *)

\* The screenings that return a result in the step: those that were not
\* done before it and are done, with an ok response, after it.
ReturnsResult ==
    {r \in 1..Len(req') :
        /\ req'[r].pc = "done" /\ Val(req'[r].response).ok
        /\ (r \in Requests => req[r].pc # "done")}

\* C15 (as claimed): screening_results is append-only: every screening that
\* returns a result adds exactly one new row, and no stored row is modified,
\* replaced or removed, so n successful screenings leave n rows.
C15_HistoryAppendOnly ==
    [][/\ screening_results \subseteq screening_results'
       /\ Cardinality(screening_results')
             = Cardinality(screening_results) + Cardinality(ReturnsResult)]_vars

\* C16 (as claimed): once a mapping (ticker, identifier, display name) is
\* stored for a ticker, no later operation changes the stored identifier or
\* the stored display name, and the mapping never disappears.
C16_MappingImmutable ==
    [][\A t \in Tickers :
          Has(edgar_cik_mapping[t]) =>
              /\ Has(edgar_cik_mapping'[t])
              /\ Val(edgar_cik_mapping'[t]).cik = Val(edgar_cik_mapping[t]).cik
              /\ Val(edgar_cik_mapping'[t]).company_name
                    = Val(edgar_cik_mapping[t]).company_name]_vars

\* C17 (as claimed): getFinancials(ticker) without forceRefresh returns the
\* cached data without a network request if and only if data are cached and
\* their last fiscal year is not earlier than the prior calendar year,
\* whatever the current year.
C17_RefreshIffOlderThanPriorYear ==
    \A i \in EdgarCallIds :
        LET c == edgarCalls[i]
        IN  (c.op = "getFinancials" /\ ~c.forceRefresh) =>
                ((c.returned = "cached" /\ ~c.network)
                    <=> (Has(c.cachedLast) /\ Val(c.cachedLast) >= c.year - 1))


----------------------------------------------------------------------------
(* Claims about growth rates *)

IsNumber(r) == Has(r) /\ Val(r).kind \in {"cagr", "improvement"}

AtLeastTwoYears(span) == span[1] >= 2 * span[2]

\* C18 (as claimed): in every provider that computes the CAGR of a yearly
\* series, the result is a number only if the series has at least 2 points,
\* the two endpoints used are at least 2 years apart and both endpoint
\* values are strictly positive; otherwise it is null.
C18_CagrNullUnlessDefined ==
    \A provider \in {"edgar", "alphaVantage", "yahoo"} :
        LET r == cagr[provider]
        IN  r # NotCalled =>
                /\ r = Missing \/ IsNumber(r)
                /\ IF IsNumber(r)
                   THEN
                      /\ Cardinality(history) >= 2
                      /\ AtLeastTwoYears(Val(r).years)
                      /\ Val(r).start > 0 /\ Val(r).end > 0
                   ELSE TRUE

\* C19 (as claimed): FMPApiService.calculateCAGR(startValue, endValue, years)
\* is null when the two values have different signs; when both are negative
\* it is the improvement rate if the loss narrowed (end/start <= 1) and null
\* otherwise; it is the plain CAGR only when both are strictly positive.
C19_FmpCagrSigns ==
    LET startValue == cagrArgs[1]
        endValue   == cagrArgs[2]
        years      == cagrArgs[3]
        r          == cagr.fmp
    IN  (r # NotCalled /\ years > 0) =>
            /\ ((startValue < 0 /\ endValue > 0)
                \/ (startValue > 0 /\ endValue < 0)) => r = Missing
            /\ (startValue < 0 /\ endValue < 0) =>
                  IF -endValue <= -startValue
                  THEN r = Growth("improvement", endValue, startValue,
                                  <<years, 1>>)
                  ELSE r = Missing
            /\ (IF Has(r) THEN Val(r).kind = "cagr" ELSE FALSE) =>
                  (startValue > 0 /\ endValue > 0)


----------------------------------------------------------------------------
(* Claims about clearing the cache *)

\* The step is a call of clearExpiredCache.
ClearsExpired == lastClear' # lastClear

RowsDeleted ==
    Cardinality({k \in Tickers : Has(stock_cache[k]) /\ ~Has(stock_cache'[k])})

\* C20 (as claimed): after clearExpiredCache() at time t no row remains that
\* getCachedStock at t would reject as stale, every row fresh at t is still
\* there unchanged, and the number returned is the number of rows deleted.
C20_ClearExpiredLeavesNoStale ==
    [][ClearsExpired =>
          LET t == Val(lastClear').at
          IN  /\ \A k \in Tickers :
                    IF Has(stock_cache[k])
                       /\ ~isFresh(Val(stock_cache[k]).dataFetchedAt, t)
                    THEN ~Has(stock_cache'[k])
                    ELSE stock_cache'[k] = stock_cache[k]
              /\ Val(lastClear').changes = RowsDeleted]_vars

\* C20 (amended): clearExpiredCache() at time t deletes exactly the rows
\* fetched more than 24 hours before t and returns their number; a row
\* fetched exactly 24 hours before t stays, although getCachedStock at t
\* rejects it; every other row is unchanged.
C20_ClearExpiredRemovesOlder ==
    [][ClearsExpired =>
          LET t == Val(lastClear').at
          IN  /\ \A k \in Tickers :
                    IF Has(stock_cache[k])
                       /\ t - Val(stock_cache[k]).dataFetchedAt
                             > CACHE_DURATION_MS
                    THEN ~Has(stock_cache'[k])
                    ELSE stock_cache'[k] = stock_cache[k]
              /\ Val(lastClear').changes = RowsDeleted]_vars

\* A call that deleted a row and left one fetched exactly 24 hours before,
\* which getCachedStock rejects at that time.
C20_Witness ==
    /\ Has(lastClear)
    /\ Val(lastClear).changes >= 1
    /\ now = Val(lastClear).at
    /\ \E k \in Tickers :
          /\ Has(stock_cache[k])
          /\ now - Val(stock_cache[k]).dataFetchedAt = CACHE_DURATION_MS
          /\ ~Has(getCachedStock(stock_cache, k, now))


----------------------------------------------------------------------------
(* Claims about concurrent screenings and the order of the fallbacks *)

\* The screenings that end in this step with a save of their record.
SavesNow ==
    {r \in 1..Len(req') :
        /\ req'[r].pc = "done"
        /\ "stock_cache" \in req'[r].writes
        /\ IF r \in Requests THEN req[r].pc # "done" ELSE TRUE}

\* C21: whatever the interleaving of the screenings of a ticker, each save
\* leaves as the ticker's single row the whole record of the screening that
\* saved (the last save wins, fields of two records are never mixed), and
\* no other step changes the row.
C21_LastWriteWins ==
    [][\A k \in Tickers :
          LET W == {r \in SavesNow : req'[r].ticker = k}
          IN  IF W = {} THEN stock_cache'[k] = stock_cache[k]
              ELSE \A r \in W :
                      /\ Has(stock_cache'[k])
                      /\ RecordOf(Val(stock_cache'[k])) = req'[r].data]_vars

\* Two screenings of one ticker that both missed the cache and saved
\* different records, the one that arrived first saving last: its record is
\* the stored one.
C21_Witness ==
    /\ Len(req) = 2
    /\ req[1].ticker = req[2].ticker
    /\ \A r \in {1, 2} :
          /\ req[r].pc = "done"
          /\ req[r].dataSource = "api"
          /\ "stock_cache" \in req[r].writes
    /\ req[1].data # req[2].data
    /\ req[2].data.dataFetchedAt < req[1].data.dataFetchedAt
    /\ stock_cache[req[1].ticker] = Some(RowOf(req[1].data))


\* Screening r makes the call in this step.
CallsNow(r, call) ==
    /\ call \in req'[r].calls
    /\ IF r \in Requests THEN call \notin req[r].calls ELSE TRUE

\* C22: screenTicker calls geminiService.searchGrowthMetrics only when the
\* growth calculation of the primary provider has just answered, a growth
\* metric is still null and the service is configured; with both metrics
\* non-null it is never called.
C22_SearchOnlyFillsGaps ==
    [][\A r \in 1..Len(req') :
          CallsNow(r, "gemini.searchGrowthMetrics") =>
              /\ r \in Requests
              /\ req[r].pc = "fmp.calculateGrowthMetrics"
              /\ req'[r].pc = "gemini.searchGrowthMetrics"
              /\ ~Has(req'[r].data.ebitdaGrowth)
                    \/ ~Has(req'[r].data.assetGrowth)
              /\ env.geminiKey]_vars

\* One screening went to the search provider with only assetGrowth null,
\* another, given both metrics by the primary provider, ended without it.
C22_Witness ==
    /\ env.geminiKey
    /\ \E r \in Requests :
          /\ req[r].pc = "gemini.searchGrowthMetrics"
          /\ Has(req[r].data.ebitdaGrowth)
          /\ ~Has(req[r].data.assetGrowth)
    /\ \E r \in Requests :
          /\ req[r].path = "single"
          /\ req[r].pc = "done"
          /\ "fmp.calculateGrowthMetrics" \in req[r].calls
          /\ "gemini.searchGrowthMetrics" \notin req[r].calls
          /\ Has(req[r].data.ebitdaGrowth) /\ Has(req[r].data.assetGrowth)


GrowthStillNull(d) == ~Has(d.ebitdaGrowth) \/ ~Has(d.assetGrowth)

\* C23: in screenTickerInternal the fallbacks are called in the order
\* Yahoo, EDGAR, Alpha Vantage, each only while its field is still null
\* (price6MonthsAgo for Yahoo, a growth metric for the other two), Alpha
\* Vantage only with its key set and more than 5 calls remaining today; the
\* record is saved in the step that ends the screening, after them all.
C23_BulkFallbackOrder ==
    [][\A r \in 1..Len(req') :
          /\ CallsNow(r, "yahoo.getCompleteFinancials") =>
                /\ r \in Requests
                /\ req[r].pc = "gemini.getStockData"
                /\ ~Has(req'[r].data.price6MonthsAgo)
          /\ CallsNow(r, "edgar.getGrowthMetrics") =>
                /\ r \in Requests
                /\ req[r].pc \in {"gemini.getStockData",
                                  "yahoo.getCompleteFinancials"}
                /\ GrowthStillNull(req'[r].data)
          /\ CallsNow(r, "alphaVantage.getGrowthMetrics") =>
                /\ r \in Requests
                /\ req[r].pc = "edgar.getGrowthMetrics"
                /\ GrowthStillNull(req'[r].data)
                /\ env.avKey
                /\ getRemainingCalls(alphaVantage, now) > 5
          /\ (req'[r].path = "bulk" /\ r \in SavesNow) =>
                /\ req'[r].pc = "done"
                /\ stock_cache'[req'[r].ticker] = Some(RowOf(req'[r].data))
          /\ (req'[r].path = "bulk" /\ r \notin SavesNow) =>
                ((\A s \in SavesNow : req'[s].ticker # req'[r].ticker)
                    => stock_cache'[req'[r].ticker]
                          = stock_cache[req'[r].ticker])]_vars

\* A bulk screening that went through all three fallbacks and saved, and one
\* that ended with a growth metric null, Alpha Vantage configured but
\* skipped with 5 calls or fewer remaining.
C23_Witness ==
    /\ env.avKey
    /\ \E r \in Requests :
          /\ req[r].path = "bulk" /\ req[r].pc = "done"
          /\ {"yahoo.getCompleteFinancials", "edgar.getGrowthMetrics",
              "alphaVantage.getGrowthMetrics"} \subseteq req[r].calls
          /\ "stock_cache" \in req[r].writes
    /\ \E r \in Requests :
          /\ req[r].path = "bulk" /\ req[r].pc = "done"
          /\ "edgar.getGrowthMetrics" \in req[r].calls
          /\ "alphaVantage.getGrowthMetrics" \notin req[r].calls
          /\ GrowthStillNull(req[r].data)
          /\ "stock_cache" \in req[r].writes
    /\ getRemainingCalls(alphaVantage, now) <= 5


----------------------------------------------------------------------------
(* Claims about the CIK lookup *)

\* Call i is made in this step.
EdgarCallMade(i) == i = Len(edgarCalls) + 1 /\ Len(edgarCalls') = i

\* C24: getCik downloads the issuer directory only when neither the memory
\* map nor the mapping table has the ticker; once a ticker is resolved, a
\* later getCik returns the stored identifier without a download; a ticker
\* absent from the directory gives null, with nothing persisted.
C24_CikLookupOrder ==
    [][\A i \in 1..Len(edgarCalls') :
          LET c == edgarCalls'[i]
          IN  /\ (EdgarCallMade(i) /\ c.pc = "getCik") =>
                    /\ ~Has(cikCache[c.ticker])
                    /\ ~Has(edgar_cik_mapping[c.ticker])
              /\ (~EdgarCallMade(i) /\ c.pc = "getCik") =>
                    edgarCalls[i].pc = "getCik"
              /\ (EdgarCallMade(i) /\ c.op = "getCik"
                  /\ Has(edgar_cik_mapping[c.ticker])) =>
                    /\ c.pc = "done" /\ c.returned = "cik" /\ ~c.network
                    /\ c.cik = Some(Val(edgar_cik_mapping[c.ticker]).cik)
                    /\ edgar_cik_mapping' = edgar_cik_mapping
              /\ (~EdgarCallMade(i) /\ c.directory = "absent"
                  /\ edgarCalls[i].directory = "none") =>
                    /\ c.pc = "done" /\ c.returned = "null"
                    /\ ~Has(c.cik)
                    /\ edgar_cik_mapping' = edgar_cik_mapping
                    /\ cikCache' = cikCache]_vars

\* A getCik that resolved its ticker by a download, a later one answered
\* with the same padded identifier without a request, and one whose ticker
\* was absent from the directory: null, no mapping stored.
C24_Witness ==
    /\ Len(edgarCalls) = 3
    /\ \A i \in 1..3 : edgarCalls[i].op = "getCik" /\ edgarCalls[i].pc = "done"
    /\ edgarCalls[1].directory = "found" /\ edgarCalls[1].network
    /\ edgarCalls[2].ticker = edgarCalls[1].ticker
    /\ ~edgarCalls[2].network
    /\ edgarCalls[2].cik = edgarCalls[1].cik
    /\ edgarCalls[2].cik = Some(<<0, 0, 0, 0, 3, 2, 0, 1, 9, 3>>)
    /\ ~Has(cikCache[edgarCalls[2].ticker])
    /\ edgarCalls[3].directory = "absent"
    /\ edgarCalls[3].returned = "null"
    /\ ~Has(edgar_cik_mapping[edgarCalls[3].ticker])


----------------------------------------------------------------------------
(* Claims about the investment pattern and the scoring input *)

BothGrowthGiven(in) == Has(in.ebitdaGrowth) /\ Has(in.assetGrowth)

----------------------------------------------------------------------------
(* Claims about the bulk screening *)

\* C26: in bulkScreen a symbol whose screening throws is recorded in the
\* error list and the batch goes on: the symbols attempted are the symbols
\* selected, once each and in order, all of them by the time of the
\* response; results plus errors never exceed the symbols attempted, which
\* are at most min(limit, 50) (none for a limit below zero).
BulkLoopBestEffort ==
    /\ bulk.attempted = SubSeq(bulk.symbolsToScreen, 1, Len(bulk.attempted))
    /\ bulk.threw = {bulk.errors[i].ticker : i \in DOMAIN bulk.errors}
    /\ bulk.pc = "done" => Len(bulk.attempted) = Len(bulk.symbolsToScreen)
    /\ Len(bulk.results) + Len(bulk.errors) <= Len(bulk.attempted)

C26_BulkBestEffort ==
    bulk.pc \in {"loop", "done"} =>
        /\ BulkLoopBestEffort
        /\ bulk.limit <= 50
        /\ Len(bulk.attempted) <= (IF bulk.limit < 0 THEN 0 ELSE bulk.limit)

\* The part of C26 that does not depend on the limit.
C26_LoopOnly == bulk.pc \in {"loop", "done"} => BulkLoopBestEffort

----------------------------------------------------------------------------
(* Claims about the price of six months ago *)

\* The dates of a series, and the dates not after the target date.
DatesOf(series) == {series[i].date : i \in DOMAIN series}

TargetDate == targetDateOf(priceLookup.today, 180)

\* The point the claim names: the latest of the points not after the target
\* date, the oldest point when every point is after it.
NotExceeding(series) ==
    LET upTo == {d \in DatesOf(series) : d <= TargetDate}
    IN  IF upTo # {} THEN Max(upTo)
        ELSE CHOOSE d \in DatesOf(series) : \A e \in DatesOf(series) : d <= e

\* C27 as claimed: each provider takes the price of the point closest to the
\* target date among the points not after it, and the oldest point only when
\* every point is after the target date.
C27_ClosestNotExceeding ==
    /\ (priceLookup.yahoo.called /\ priceLookup.prices # <<>>) =>
          Val(priceLookup.yahoo.point).date = NotExceeding(priceLookup.prices)
    /\ (priceLookup.fmp.called /\ Has(priceLookup.fmp.point)) =>
          Val(priceLookup.fmp.point).date
              = NotExceeding(Val(priceLookup.historical))

\* C27: FMPApiService.getHistoricalPrice takes the latest point not after the
\* target date and the oldest point when there is none;
\* YahooFinanceService.getPrice6MonthsAgo takes the point at the smallest
\* distance from the target date on either side (the earlier one at equal
\* distance); both give null for an empty series and for a price of 0 taken
\* by the Yahoo lookup or as the oldest point.
C27_ClosestEitherSide ==
    /\ priceLookup.yahoo.called =>
          IF priceLookup.prices = <<>>
          THEN priceLookup.yahoo.returned = Missing
          ELSE LET chosen == Val(priceLookup.yahoo.point)
               IN  /\ chosen.date \in DatesOf(priceLookup.prices)
                   /\ \A d \in DatesOf(priceLookup.prices) :
                         \/ Abs(chosen.date - TargetDate) < Abs(d - TargetDate)
                         \/ /\ Abs(chosen.date - TargetDate) = Abs(d - TargetDate)
                            /\ chosen.date <= d
                   /\ priceLookup.yahoo.returned = orNull(Some(chosen.close))
    /\ priceLookup.fmp.called =>
          IF ~Has(priceLookup.historical) \/ Val(priceLookup.historical) = <<>>
          THEN priceLookup.fmp.returned = Missing
          ELSE LET chosen == Val(priceLookup.fmp.point)
               IN  /\ chosen.date = NotExceeding(Val(priceLookup.historical))
                   /\ priceLookup.fmp.returned =
                         IF chosen.date <= TargetDate THEN Some(chosen.close)
                         ELSE orNull(Some(chosen.close))

\* The Yahoo lookup took a point after the target date although an earlier
\* point was there, and the FMP lookup took the earlier one.
C27_Witness ==
    /\ priceLookup.yahoo.called /\ priceLookup.fmp.called
    /\ Has(priceLookup.yahoo.point) /\ Has(priceLookup.fmp.point)
    /\ Val(priceLookup.yahoo.point).date > TargetDate
    /\ Val(priceLookup.fmp.point).date < TargetDate
    /\ priceLookup.yahoo.returned = Some(50)
    /\ priceLookup.fmp.returned = Some(50)

----------------------------------------------------------------------------
(* Claims about the conversion of a stored record to the scoring input *)

\* The conversion the claim describes: every field of the record as it is.
PassedThrough(d) ==
    [price |-> d.price, marketCap |-> d.marketCap,
     high52w |-> d.high52w, low52w |-> d.low52w,
     freeCashFlow |-> d.fcf, bookValue |-> d.bookValue,
     ebitdaGrowth |-> d.ebitdaGrowth, assetGrowth |-> d.assetGrowth,
     ebitdaMargin |-> d.ebitdaMargin, roa |-> d.roa,
     price6MonthsAgo |-> d.price6MonthsAgo,
     paysDividend |-> Some(d.paysDividend),
     dividendYield |-> d.dividendYield]

\* The results saved at this instant, each with the record stored for it.
ScreenedNow == {x \in screening_results : x.screened_at = now}

StoredFor(x) == RecordOf(Val(stock_cache[x.ticker]))

\* C28: the score a screening gives for a stored record is the engine's
\* score of the record's own field values, a field that is exactly 0 being
\* scored as the number 0 and not as a missing value.
C28_ScoresOfStoredRecord ==
    \A x \in ScreenedNow :
        /\ Has(stock_cache[x.ticker])
        /\ x.total_score = calculateScores(PassedThrough(StoredFor(x))).total

\* The fields of a stored record that hold a number other than 0 reach the
\* engine unchanged.
C28_NonZeroFieldsPassed ==
    \A x \in ScreenedNow :
        /\ Has(stock_cache[x.ticker])
        /\ LET d  == StoredFor(x)
               in == ScoringInputOf(d)
           IN  /\ x.total_score = calculateScores(in).total
               /\ \A f \in {"ebitdaGrowth", "assetGrowth", "ebitdaMargin", "roa",
                            "price6MonthsAgo", "dividendYield"} :
                     in[f] = IF Truthy(d[f]) THEN d[f] ELSE Missing

----------------------------------------------------------------------------
(* Claims about the pre-screening scores *)

\* C29: for the same prices the pre-screening gives the points of the
\* engine: priceRangeScore is factor 7, momentumScore is factor 8 (an unknown
\* momentum included), and preScreenScore is their sum, within 0..15.
C29_PreScreenAgreesWithEngine ==
    (Scored /\ PreScreened) =>
        /\ preScreen.priceRangeScore = result.priceRange.score
        /\ preScreen.momentumScore = result.momentum.score
        /\ preScreen.preScreenScore
              = result.priceRange.score + result.momentum.score
        /\ preScreen.preScreenScore \in 0..Pts(15)

\* The part of C29 about the pre-screening alone: the sum of its two scores,
\* within 0..15.
C29_PreScreenScoreRange ==
    PreScreened =>
        /\ preScreen.preScreenScore
              = preScreen.priceRangeScore + preScreen.momentumScore
        /\ preScreen.preScreenScore \in 0..Pts(15)

----------------------------------------------------------------------------
(* Claims about the cache statistics *)

\* C30: getCacheStats agrees with the reads of the same instant: totalCached
\* is freshCount + expiredCount, and freshCount is the number of stored
\* tickers getCachedStock returns a record for, an entry aged exactly 24
\* hours being counted as expired.
C30_StatsAgreeWithReads ==
    Has(lastStats) =>
        /\ Val(lastStats).stats.totalCached
              = Val(lastStats).stats.freshCount + Val(lastStats).stats.expiredCount
        /\ Val(lastStats).stats.freshCount = Val(lastStats).readable

\* The part of C30 that holds: the three counts add up, and every ticker that
\* can be read is counted as fresh.
C30_CountsAddUp ==
    Has(lastStats) =>
        /\ Val(lastStats).stats.totalCached
              = Val(lastStats).stats.freshCount + Val(lastStats).stats.expiredCount
        /\ Val(lastStats).stats.expiredCount >= 0
        /\ Val(lastStats).readable <= Val(lastStats).stats.freshCount

====
